---- MODULE Spec2Model ----
(***************************************************************************)
(* Capture correlation pipeline of the screen recorder:                    *)
(*   - InputService (main process): raw hook events -> Action stream       *)
(*   - useActions / App (renderer): action list, serialized capture jobs   *)
(*   - UploadQueue (planned in history/upload-system-plan.md)              *)
(***************************************************************************)
EXTENDS Integers, Sequences, FiniteSets, TLC

(***************************************************************************)
(* Bounds of the model                                                     *)
(***************************************************************************)
\* Environment steps (hook events, stop() calls, clock steps) in one behaviour
\* of each specification.
MaxSteps == 4
MaxPipeSteps == 3
MaxClickSteps == 6
MaxPointerSteps == 5
MaxScrollSteps == 6
MaxCaptureSteps == 4
MaxJobSteps == 4
MaxWarmSteps == 4
MaxRawSteps == 4
MaxRecorderSteps == 5
\* dataavailable events that carry data, in one behaviour
MaxChunks == 3
MaxUploadSteps == 6
\* Sessions known to the upload queue, size of a bundle in progress callbacks
MaxUploadSessions == 2
TotalChunks == 2
\* maxRetries of the upload configuration (10 by default)
maxRetries == 2
\* a larger maxRetries, under which the backoff delay reaches its cap
MaxBackoffRetries == 11
MaxBackoffSteps == 22

(***************************************************************************)
(* Program constants                                                       *)
(***************************************************************************)
scrollDebounceMs == 150
clickThresholdMs == 500
clickDistanceThreshold == 10
moveDebounceMs == 350

\* JavaScript null / undefined (a cleared timer handle, a missing event field)
Null == -1

\* The clock advances in steps that divide every debounce window and threshold.
TickMs == scrollDebounceMs \div 3
\* Date.now() when the process starts; wall-clock time is far above any threshold.
EpochMs == 2 * clickThresholdMs

Max(S) == CHOOSE m \in S : \A k \in S : k <= m
Min(S) == CHOOSE m \in S : \A k \in S : m <= k

Pt(px, py) == [x |-> px, y |-> py]

\* EventData delivered by the hook: x and y may be absent.
NoCoords == Pt(Null, Null)
ClickEvents == {Pt(100, 100), Pt(106, 108), NoCoords}
MoveEvents == {Pt(100, 100), NoCoords}
DownEvents == {Pt(100, 100), Pt(106, 108)}
DragEvents == {Pt(103, 104)}
\* keyDown events: keyCode and modifiers, each of which may be missing
NoModifiers == "undefined"
KeyEvent(keyCode, modifiers) == [keyCode |-> keyCode, modifiers |-> modifiers]
KeyEvents == {KeyEvent(k, m) : k \in {0, Null}, m \in {"shift", NoModifiers}}

VARIABLES
    \* ---- wall clock
    now,
    \* ---- InputService fields
    sessionId, sessionStartTime, callback, isRunning,
    scrollTimeout, isScrolling, lastScrollCoords,
    lastClickTime, lastClickCoords, clickCount,
    isLeftButtonDown, isDragging, dragStartCoords,
    moveTimeout, isMoving, lastMoveCoords,
    actionCounter,
    \* ---- the timers of the main process that are pending (setTimeout)
    timers,
    \* ---- hook / OS
    hasPermissions,
    \* ---- IPC channel main -> renderer ("action" messages in flight)
    channel,
    \* ---- useActions state
    actions,
    \* ---- useRecorder / useActions flags, App refs and call state (renderer)
    isRecording, isCapturing, sessionIdRef, screenshotServiceRef,
    screenshotMetaRef, captureQueueRef, lastSeenActionIdRef,
    effectPending, startPc, stopCall, settledJobs, exported, captureLog,
    \* ---- UploadQueue: persisted UploadState records, in-memory queue state
    uploadState, uploadQueue, activeUpload, transferred, backoffUntil,
    processUp, interrupted, failures, uploadOp,
    \* ---- useRecorder: the MediaRecorder's state, sessionIdRef, the chain of
    \* chunk writes, the onstop handler, the video file of the main process
    mediaRecorderRef, recorderSessionIdRef, chunkQueueRef, onstop, videoFile,
    videoLog, chunkCount,
    \* ---- observation of the run: handler invocations and emitted actions
    hist, steps, budget, cleared

normVars == <<sessionId, sessionStartTime, callback, isRunning,
              scrollTimeout, isScrolling, lastScrollCoords,
              lastClickTime, lastClickCoords, clickCount,
              isLeftButtonDown, isDragging, dragStartCoords,
              moveTimeout, isMoving, lastMoveCoords, actionCounter, timers>>

coordVars == <<isRecording, isCapturing, sessionIdRef, screenshotServiceRef,
               screenshotMetaRef, captureQueueRef, lastSeenActionIdRef,
               effectPending, startPc, stopCall, settledJobs, exported,
               captureLog>>

uploadVars == <<uploadState, uploadQueue, activeUpload, transferred, backoffUntil,
                processUp, interrupted, failures, uploadOp>>

recorderVars == <<mediaRecorderRef, recorderSessionIdRef, chunkQueueRef, onstop,
                  videoFile, videoLog, chunkCount>>

vars == <<now, normVars, hasPermissions, channel, actions, coordVars, uploadVars,
          recorderVars, hist, steps, budget, cleared>>

(***************************************************************************)
(* InputService                                                            *)
(***************************************************************************)

\* coordsFrom(event): missing coordinates default to 0
coordsFrom(event) ==
    Pt(IF event.x = Null THEN 0 ELSE event.x,
       IF event.y = Null THEN 0 ELSE event.y)

\* Faulty variant, to test that the properties below depend on the rule:
\* an id made of the clock reading alone.
generateActionIdFromClock(counter) == <<now, 0>>
\* generateActionId(): `action-${Date.now()}-${++actionCounter}`; the counter
\* belongs to the module, not to the service, and is never reset
generateActionId(counter) == <<now, counter + 1>>

\* Faulty variant, to test that the properties below depend on the rule:
\* the difference taken the other way round.
relativeTimeReversed(t) == sessionStartTime - t
\* relativeTimeMs: now - this.sessionStartTime
relativeTime(t) == t - sessionStartTime

\* createBaseAction + enrich: the action record built by emit().
\* counter is the value of actionCounter before the call.
createBaseAction(type, coords, button, count, counter) ==
    [kind |-> "out",
     actionId |-> generateActionId(counter),
     sessionId |-> sessionId,
     type |-> type,
     happenedAt |-> now,
     relativeTimeMs |-> relativeTime(now),
     coords |-> coords,
     button |-> button,
     clickCount |-> count,
     streamTimestamp |-> Null,
     screenshotRef |-> <<>>,
     beforeScreenshotRef |-> <<>>,
     afterScreenshotRef |-> <<>>]

\* A handler invocation, recorded in hist ahead of what it emits.
Invoked(name, coords) ==
    [kind |-> "in",
     actionId |-> <<0, 0>>,
     sessionId |-> sessionId,
     type |-> name,
     happenedAt |-> now,
     relativeTimeMs |-> now - sessionStartTime,
     coords |-> coords,
     button |-> "none",
     clickCount |-> 0,
     streamTimestamp |-> Null,
     screenshotRef |-> <<>>,
     beforeScreenshotRef |-> <<>>,
     afterScreenshotRef |-> <<>>]

\* emitAction(action) for each action of outs in turn: handed to the callback
\* (webContents.send("action", action)) only when a callback is set.
emitAction(cb, outs) == IF cb # "null" THEN outs ELSE <<>>

\* Euclidean distance < threshold, on integers: dx^2 + dy^2 < threshold^2
distanceSquared(a, b) == (a.x - b.x) * (a.x - b.x) + (a.y - b.y) * (a.y - b.y)

\* Common tail of every handler: record the invocation and what was emitted,
\* put the emitted actions on the IPC channel, advance the id counter.
Emits(name, coords, outs) ==
    /\ hist' = hist \o <<Invoked(name, coords)>> \o emitAction(callback, outs)
    /\ channel' = channel \o emitAction(callback, outs)
    /\ actionCounter' = actionCounter + Len(outs)

\* A step of the environment: it is counted against the budget of the run.
EnvStep ==
    /\ steps < budget
    /\ steps' = steps + 1
    /\ UNCHANGED <<budget, cleared, coordVars, uploadVars, recorderVars>>

\* A hook event is delivered to a registered handler.
HookEvent ==
    /\ isRunning
    /\ EnvStep
    /\ UNCHANGED <<now, hasPermissions, actions>>

\* Faulty variant, to test that the properties below depend on the rule:
\* start() does not look at the accessibility permission.
mayAcquireUnchecked == TRUE
\* iohook.checkAccessibilityPermissions().hasPermissions
mayAcquire == hasPermissions

\* start(sessionId, sessionStartTime, callback), called through the
\* "startInputCapture" IPC handler: checks the permission, stores the session
\* and the callback, registers the handlers.
start(sid) ==
    /\ ~isRunning
    /\ mayAcquire
    /\ sessionId' = sid
    /\ sessionStartTime' = now
    /\ callback' = "send"
    /\ isRunning' = TRUE
    /\ hist' = Append(hist, [Invoked("start", Pt(0, 0)) EXCEPT
                               !.sessionId = sid,
                               !.relativeTimeMs = 0])
    /\ UNCHANGED <<scrollTimeout, isScrolling, lastScrollCoords,
                   lastClickTime, lastClickCoords, clickCount,
                   isLeftButtonDown, isDragging, dragStartCoords,
                   moveTimeout, isMoving, lastMoveCoords, actionCounter,
                   timers>>
    /\ UNCHANGED <<now, hasPermissions, channel>>

\* the "startInputCapture" IPC handler, invoked with a fresh session id
Start ==
    /\ start(sessionId + 1)
    /\ UNCHANGED <<steps, budget, actions, cleared, coordVars, uploadVars, recorderVars>>

\* start() while running returns at once; start() without the accessibility
\* permission throws before any field is written.
StartRefused ==
    /\ isRunning \/ ~mayAcquire
    /\ EnvStep
    /\ hist' = Append(hist, Invoked(IF isRunning THEN "start_noop" ELSE "start_denied",
                                    Pt(0, 0)))
    /\ UNCHANGED <<now, normVars, hasPermissions, channel, actions>>

\* The accessibility permission is granted or revoked in System Settings.
SetPermission ==
    /\ ~isRunning
    /\ EnvStep
    /\ hasPermissions' = ~hasPermissions
    /\ hist' = Append(hist, Invoked("permission", Pt(0, 0)))
    /\ UNCHANGED <<now, normVars, channel, actions>>

\* A pending timer of the process: its callback and the time it is due.
Timer(kind, due) == [kind |-> kind, due |-> due]

\* Faulty variant, to test that the properties below depend on the rule:
\* the pending timer is left to run.
clearTimeoutSkipped(pending, kind, handle) == pending
\* if (handle) clearTimeout(handle)
clearTimeout(pending, kind, handle) ==
    IF handle = Null THEN pending ELSE pending \ {Timer(kind, handle)}

\* setTimeout(callback, ...): one more pending timer
setTimeout(pending, kind, due) == pending \cup {Timer(kind, due)}

\* the timers of a kind that are due
Due(kind) == {t \in timers : t.kind = kind /\ t.due <= now}

\* Faulty variant, to test that the properties below depend on the rule:
\* a stop() that closes no open session.
stopEmitsNothing == <<>>
\* What stop() emits before it clears the callback: scroll_end when scrolling,
\* then mouseover_end when moving.
stopEmits ==
    LET scrollEnd == IF isScrolling
                     THEN <<createBaseAction("scroll_end", lastScrollCoords,
                                             "none", 0, actionCounter)>>
                     ELSE <<>>
        moveEnd == IF isMoving
                   THEN <<createBaseAction("mouseover_end", lastMoveCoords,
                                           "none", 0, actionCounter + Len(scrollEnd))>>
                   ELSE <<>>
    IN  scrollEnd \o moveEnd

\* Faulty variant, to test that the properties below depend on the rule:
\* a stop() without the early return, which tears down whatever the state.
stopAlwaysTearsDown == FALSE
\* if (!this.isRunning) return;
stopReturnsAtOnce == ~isRunning

\* stop(): the early return is recorded as "stop_noop", the teardown
\* (removeListener, stopMonitoring, the fields reset) as "stop"
stop ==
    /\ IF stopReturnsAtOnce
       THEN /\ UNCHANGED normVars
            /\ hist' = Append(hist, Invoked("stop_noop", Pt(0, 0)))
            /\ UNCHANGED channel
       ELSE /\ timers' = clearTimeout(clearTimeout(timers, "scroll", scrollTimeout),
                                      "hover", moveTimeout)
            /\ scrollTimeout' = Null
            /\ isScrolling' = FALSE
            /\ moveTimeout' = Null
            /\ isMoving' = FALSE
            /\ isRunning' = FALSE
            /\ callback' = "null"
            /\ isLeftButtonDown' = FALSE
            /\ isDragging' = FALSE
            /\ Emits("stop", Pt(0, 0), stopEmits)
            /\ UNCHANGED <<sessionId, sessionStartTime, lastScrollCoords,
                           lastClickTime, lastClickCoords, clickCount,
                           dragStartCoords, lastMoveCoords>>
    /\ UNCHANGED <<now, hasPermissions>>

\* the "stopInputCapture" IPC handler
Stop ==
    /\ EnvStep
    /\ stop
    /\ UNCHANGED actions

\* Faulty variant, to test that the properties below depend on the rule:
\* thresholds compared with <= instead of <.
nextClickCountInclusive(coords) ==
    IF /\ now - lastClickTime <= clickThresholdMs
       /\ distanceSquared(coords, lastClickCoords)
             <= clickDistanceThreshold * clickDistanceThreshold
    THEN clickCount + 1
    ELSE 1

\* The click-count rule of handleMouseDown
nextClickCount(coords) ==
    IF /\ now - lastClickTime < clickThresholdMs
       /\ distanceSquared(coords, lastClickCoords)
             < clickDistanceThreshold * clickDistanceThreshold
    THEN clickCount + 1
    ELSE 1

\* handleMouseDown(button, event)
handleMouseDown(name, button, event) ==
    LET coords == coordsFrom(event)
        count == nextClickCount(coords)
    IN  /\ clickCount' = count
        /\ lastClickTime' = now
        /\ lastClickCoords' = coords
        /\ Emits(name, coords,
                 <<createBaseAction("click", coords, button, count, actionCounter)>>)

handleLeftMouseDown(event) ==
    /\ HookEvent
    /\ isLeftButtonDown' = TRUE
    /\ isDragging' = FALSE
    /\ dragStartCoords' = coordsFrom(event)
    /\ handleMouseDown("leftMouseDown", "left", event)
    /\ UNCHANGED <<timers, sessionId, sessionStartTime, callback, isRunning,
                   scrollTimeout, isScrolling, lastScrollCoords,
                   moveTimeout, isMoving, lastMoveCoords>>

handleRightMouseDown(event) ==
    /\ HookEvent
    /\ handleMouseDown("rightMouseDown", "right", event)
    /\ UNCHANGED <<timers, sessionId, sessionStartTime, callback, isRunning,
                   scrollTimeout, isScrolling, lastScrollCoords,
                   isLeftButtonDown, isDragging, dragStartCoords,
                   moveTimeout, isMoving, lastMoveCoords>>

handleOtherMouseDown(event) ==
    /\ HookEvent
    /\ handleMouseDown("otherMouseDown", "other", event)
    /\ UNCHANGED <<timers, sessionId, sessionStartTime, callback, isRunning,
                   scrollTimeout, isScrolling, lastScrollCoords,
                   isLeftButtonDown, isDragging, dragStartCoords,
                   moveTimeout, isMoving, lastMoveCoords>>

handleLeftMouseUp(event) ==
    /\ HookEvent
    /\ Emits("leftMouseUp", coordsFrom(event),
             IF isDragging
             THEN <<createBaseAction("drag_end", coordsFrom(event), "left",
                                     clickCount, actionCounter)>>
             ELSE <<>>)
    /\ isLeftButtonDown' = FALSE
    /\ isDragging' = FALSE
    /\ UNCHANGED <<timers, sessionId, sessionStartTime, callback, isRunning,
                   scrollTimeout, isScrolling, lastScrollCoords,
                   lastClickTime, lastClickCoords, clickCount, dragStartCoords,
                   moveTimeout, isMoving, lastMoveCoords>>

\* Faulty variant, to test that the properties below depend on the rule:
\* a drag opened by every drag event while the button is down.
startsDragOnEveryEvent == isLeftButtonDown
\* Faulty variant, to test that the properties below depend on the rule:
\* a drag opened without looking at the left button.
startsDragWithButtonUp == ~isDragging
\* handleLeftMouseDragged opens a drag when the left button is down and no
\* drag is active yet.
startsDrag == isLeftButtonDown /\ ~isDragging

\* What handleLeftMouseDragged emits when it opens a drag: the open hover
\* session is closed first.
dragStartEmits ==
    LET moveEnd == IF isMoving
                   THEN <<createBaseAction("mouseover_end", lastMoveCoords,
                                           "none", 0, actionCounter)>>
                   ELSE <<>>
    IN  moveEnd \o
        <<createBaseAction("drag_start", dragStartCoords, "left", clickCount,
                           actionCounter + Len(moveEnd))>>

handleLeftMouseDragged(event) ==
    /\ HookEvent
    /\ IF ~startsDrag
       THEN /\ Emits("leftMouseDragged", coordsFrom(event), <<>>)
            /\ UNCHANGED <<isDragging, moveTimeout, isMoving, timers>>
       ELSE /\ isDragging' = TRUE
            /\ moveTimeout' = Null
            /\ timers' = clearTimeout(timers, "hover", moveTimeout)
            /\ isMoving' = FALSE
            /\ Emits("leftMouseDragged", coordsFrom(event), dragStartEmits)
    /\ UNCHANGED <<sessionId, sessionStartTime, callback, isRunning,
                   scrollTimeout, isScrolling, lastScrollCoords,
                   lastClickTime, lastClickCoords, clickCount,
                   isLeftButtonDown, dragStartCoords, lastMoveCoords>>

\* event.modifiers is read without a default, by macKeyCodeToKeyAndCode when
\* the event has a keyCode and by the enrich callback of emit() otherwise
keyDownThrows(event) == event.modifiers = NoModifiers

\* A TypeError thrown out of a handler, recorded in hist after its invocation.
Thrown(name) == [Invoked(name, Pt(0, 0)) EXCEPT !.kind = "error"]

\* handleKeyDown(event): a missing keyCode defaults to -1 (key "Unknown").
\* Without modifiers the handler throws: before emit() when the key is looked
\* up, inside emit() (the action built, the id counter advanced, nothing
\* handed to the callback) when it is not.
handleKeyDown(event) ==
    /\ HookEvent
    /\ IF keyDownThrows(event)
       THEN /\ hist' = hist \o <<Invoked("keyDown", Pt(0, 0)), Thrown("TypeError")>>
            /\ actionCounter' = IF event.keyCode = Null
                                 THEN actionCounter + 1
                                 ELSE actionCounter
            /\ UNCHANGED channel
       ELSE Emits("keyDown", Pt(0, 0),
                  <<createBaseAction("keypress", Pt(0, 0), "none", 0, actionCounter)>>)
    /\ UNCHANGED <<timers, sessionId, sessionStartTime, callback, isRunning,
                   scrollTimeout, isScrolling, lastScrollCoords,
                   lastClickTime, lastClickCoords, clickCount,
                   isLeftButtonDown, isDragging, dragStartCoords,
                   moveTimeout, isMoving, lastMoveCoords>>

\* Faulty variant, to test that the properties below depend on the rule:
\* the pending timer is not replaced.
rescheduleKeepsPending(pending, delay) == IF pending # Null THEN pending ELSE now + delay
\* clearTimeout(pending); setTimeout(callback, delay): the deadline of the one
\* timer that is pending afterwards
reschedule(pending, delay) == now + delay

handleMouseWheel(event) ==
    /\ HookEvent
    /\ lastScrollCoords' = coordsFrom(event)
    /\ isScrolling' = TRUE
    /\ Emits("scrollWheel", coordsFrom(event),
             IF ~isScrolling
             THEN <<createBaseAction("scroll_start", coordsFrom(event), "none", 0,
                                     actionCounter)>>
             ELSE <<>>)
    /\ scrollTimeout' = reschedule(scrollTimeout, scrollDebounceMs)
    /\ timers' = setTimeout(clearTimeout(timers, "scroll", scrollTimeout),
                            "scroll", reschedule(scrollTimeout, scrollDebounceMs))
    /\ UNCHANGED <<sessionId, sessionStartTime, callback, isRunning,
                   lastClickTime, lastClickCoords, clickCount,
                   isLeftButtonDown, isDragging, dragStartCoords,
                   moveTimeout, isMoving, lastMoveCoords>>

\* The scroll debounce timer fires: emitScrollEnd()
emitScrollEnd ==
    /\ \E t \in Due("scroll") : timers' = timers \ {t}
    /\ Emits("scrollTimer", lastScrollCoords,
             IF isScrolling
             THEN <<createBaseAction("scroll_end", lastScrollCoords, "none", 0,
                                     actionCounter)>>
             ELSE <<>>)
    /\ isScrolling' = FALSE
    /\ scrollTimeout' = Null
    /\ UNCHANGED <<sessionId, sessionStartTime, callback, isRunning,
                   lastScrollCoords, lastClickTime, lastClickCoords, clickCount,
                   isLeftButtonDown, isDragging, dragStartCoords,
                   moveTimeout, isMoving, lastMoveCoords>>
    /\ UNCHANGED <<now, steps, budget, hasPermissions, actions, cleared,
                   coordVars, uploadVars, recorderVars>>

\* Faulty variant, to test that the properties below depend on the rule:
\* move events ignored only once a drag is active.
hoverSuppressedInDragOnly == isDragging
\* if (this.isLeftButtonDown || this.isDragging) return;
hoverSuppressed == isLeftButtonDown \/ isDragging

handleMouseMoved(event) ==
    /\ HookEvent
    /\ IF hoverSuppressed
       THEN /\ Emits("mouseMoved", coordsFrom(event), <<>>)
            /\ UNCHANGED <<lastMoveCoords, isMoving, moveTimeout, timers>>
       ELSE /\ lastMoveCoords' = coordsFrom(event)
            /\ isMoving' = TRUE
            /\ Emits("mouseMoved", coordsFrom(event),
                     IF ~isMoving
                     THEN <<createBaseAction("mouseover_start", coordsFrom(event),
                                             "none", 0, actionCounter)>>
                     ELSE <<>>)
            /\ moveTimeout' = reschedule(moveTimeout, moveDebounceMs)
            /\ timers' = setTimeout(clearTimeout(timers, "hover", moveTimeout),
                                    "hover", reschedule(moveTimeout, moveDebounceMs))
    /\ UNCHANGED <<sessionId, sessionStartTime, callback, isRunning,
                   scrollTimeout, isScrolling, lastScrollCoords,
                   lastClickTime, lastClickCoords, clickCount,
                   isLeftButtonDown, isDragging, dragStartCoords>>

\* The hover debounce timer fires: emitMoveEnd()
emitMoveEnd ==
    /\ \E t \in Due("hover") : timers' = timers \ {t}
    /\ Emits("moveTimer", lastMoveCoords,
             IF isMoving
             THEN <<createBaseAction("mouseover_end", lastMoveCoords, "none", 0,
                                     actionCounter)>>
             ELSE <<>>)
    /\ isMoving' = FALSE
    /\ moveTimeout' = Null
    /\ UNCHANGED <<sessionId, sessionStartTime, callback, isRunning,
                   scrollTimeout, isScrolling, lastScrollCoords,
                   lastClickTime, lastClickCoords, clickCount,
                   isLeftButtonDown, isDragging, dragStartCoords, lastMoveCoords>>
    /\ UNCHANGED <<now, steps, budget, hasPermissions, actions, cleared,
                   coordVars, uploadVars, recorderVars>>

\* Wall-clock time passes by d ms. A timer callback runs when its delay has
\* elapsed, before the clock moves past it.
pendingTimers ==
    {t.due : t \in timers}
    \cup (({backoffUntil}
             \cup {captureQueueRef[k].wake : k \in DOMAIN captureQueueRef}) \ {Null})

Tick(d) ==
    /\ EnvStep
    /\ d > 0
    /\ \A t \in pendingTimers : now + d <= t
    /\ now' = now + d
    /\ UNCHANGED <<normVars, hasPermissions, channel, actions, hist>>

\* The delay until the next pending timer is due.
untilNextTimer == Min(pendingTimers) - now

TickFine == Tick(TickMs)

TickClick == Tick(clickThresholdMs \div 2)

TickToTimer ==
    /\ pendingTimers # {}
    /\ Tick(untilNextTimer)

(***************************************************************************)
(* useActions (renderer)                                                   *)
(***************************************************************************)

\* Faulty variant, to test that the properties below depend on the rule:
\* setActions([...actions, action]) over a stale, empty list.
appendActionStale(prev, action) == <<action>>
\* setActions((prev) => [...prev, action])
appendAction(prev, action) == Append(prev, action)

\* handleAction: the ipcRenderer "action" listener
handleAction ==
    /\ channel # <<>>
    /\ actions' = appendAction(actions, Head(channel))
    /\ channel' = Tail(channel)
    /\ effectPending' = TRUE
    /\ UNCHANGED <<now, normVars, hasPermissions, hist, steps, budget, cleared>>
    /\ UNCHANGED <<isRecording, isCapturing, sessionIdRef, screenshotServiceRef,
                   screenshotMetaRef, captureQueueRef, lastSeenActionIdRef,
                   startPc, stopCall, settledJobs, exported, captureLog,
                   uploadVars, recorderVars>>

\* clearActions(): setActions([]), called by handleStart
clearActions ==
    /\ actions # <<>>
    /\ actions' = <<>>
    /\ cleared' = cleared + Len(actions)
    /\ effectPending' = TRUE
    /\ UNCHANGED <<now, normVars, hasPermissions, channel, hist, steps, budget>>
    /\ UNCHANGED <<isRecording, isCapturing, sessionIdRef, screenshotServiceRef,
                   screenshotMetaRef, captureQueueRef, lastSeenActionIdRef,
                   startPc, stopCall, settledJobs, exported, captureLog,
                   uploadVars, recorderVars>>

\* the field of the action that a capture of this phase fills in
refField(phase) ==
    IF phase = "during" THEN "screenshotRef"
    ELSE IF phase = "before" THEN "beforeScreenshotRef"
    ELSE "afterScreenshotRef"

\* { ...action, ...patch }
patched(action, patch) ==
    [f \in DOMAIN action \cup DOMAIN patch |->
        IF f \in DOMAIN patch THEN patch[f] ELSE action[f]]

\* Faulty variant, to test that the properties below depend on the rule:
\* the patch applied to every action of the list.
updateActionAll(prev, actionId, patch) ==
    IF prev = <<>>
    THEN <<>>
    ELSE [i \in 1..Len(prev) |-> patched(prev[i], patch)]
\* updateAction(actionId, patch): setActions((prev) => prev.map(...))
updateAction(prev, actionId, patch) ==
    IF prev = <<>>
    THEN <<>>
    ELSE [i \in 1..Len(prev) |->
             IF prev[i].actionId = actionId
             THEN patched(prev[i], patch)
             ELSE prev[i]]

(***************************************************************************)
(* App (renderer): the capture coordinator                                 *)
(***************************************************************************)
settleDelayMs == 120

\* lastSeenActionIdRef = "", and the actionId "session_end"
NoActionId == <<0, 0>>
SessionEndId == <<0, 1>>

BoundaryTypes == {"mouseover_start", "mouseover_end", "drag_start", "drag_end",
                  "scroll_start", "scroll_end"}
BeforeAfterTypes == {"click", "keypress"}

\* The job the capture effect passes to enqueue() for the latest action, and
\* the one handleStop passes for the final screenshot.
captureJob(latest) ==
    [actionId |-> latest.actionId, type |-> latest.type,
     relativeTimeMs |-> latest.relativeTimeMs,
     phase |-> "none", pc |-> "queued", wake |-> Null, stamp |-> Null]

sessionEndJob ==
    [actionId |-> SessionEndId, type |-> "session_end", relativeTimeMs |-> 0,
     phase |-> "none", pc |-> "queued", wake |-> Null, stamp |-> Null]

\* Faulty variant, to test that the properties below depend on the rule:
\* the job is chained ahead of the pending jobs.
enqueueAtHead(queue, job) == <<job>> \o queue
\* enqueue(job): captureQueueRef.current = captureQueueRef.current.then(job).catch(...)
\* captureQueueRef holds the jobs of the chain that have not settled yet, in
\* chain order; a job runs once the promise before it in the chain has settled.
enqueue(queue, job) == Append(queue, job)

\* Faulty variant, to test that the properties below depend on the rule:
\* the job is called at once instead of chained.
mayStartAtOnce(queue, k) == TRUE
\* .then(job): job k is called when every job chained before it has settled,
\* that is when it heads the unsettled jobs
mayStart(queue, k) == k = 1

\* captureAndPersist returns null without a session or a screenshot service
canCapture == sessionIdRef # 0 /\ screenshotServiceRef # "null"

\* Faulty variant, to test that the properties below depend on the rule:
\* every action is treated as a click or keypress.
firstPhaseBeforeForAll(type) ==
    IF type = "session_end" THEN "after" ELSE "before"
\* the first capture of a job, by the type of its action
firstPhase(type) ==
    IF type \in BoundaryTypes THEN "during"
    ELSE IF type \in BeforeAfterTypes THEN "before"
    ELSE IF type = "session_end" THEN "after"
    ELSE "none"

\* Faulty variant, to test that the properties below depend on the rule:
\* the after capture is tagged with the time of the action itself.
taggedTimeOfAction(job) == job.relativeTimeMs
\* the relativeTimeMs handed to persistScreenshot
taggedTime(job) ==
    IF job.phase = "after" /\ job.type # "session_end"
    THEN job.relativeTimeMs + settleDelayMs
    ELSE job.relativeTimeMs

\* persistScreenshot(sessionIdRef.current, capture, {relativeTimeMs})
persistedRef(job) ==
    <<sessionIdRef, job.actionId[1], job.actionId[2], job.phase, taggedTime(job)>>

\* the patch the job hands to updateAction once its capture is persisted: the
\* reference in the field of the phase, and for a during or before capture
\* the stream timestamp of the capture
patchOf(job) ==
    IF job.phase = "during"
    THEN [screenshotRef |-> persistedRef(job), streamTimestamp |-> job.stamp]
    ELSE IF job.phase = "before"
    THEN [beforeScreenshotRef |-> persistedRef(job), streamTimestamp |-> job.stamp]
    ELSE [afterScreenshotRef |-> persistedRef(job)]

removeAt(queue, k) == SubSeq(queue, 1, k - 1) \o SubSeq(queue, k + 1, Len(queue))

\* observation of captureAndPersist: the call (ev = "start"), its return
\* ("done") or its throw ("failed"), with the arguments of the call
logged(ev, job) ==
    [ev |-> ev, actionId |-> job.actionId, type |-> job.type,
     phase |-> job.phase, relativeTimeMs |-> taggedTime(job), at |-> now]

\* The job's promise settles (resolved, or rejected and caught by enqueue):
\* the chain moves on, and a handleStop awaiting the chain counts it.
jobSettled(k) ==
    /\ captureQueueRef' = removeAt(captureQueueRef, k)
    /\ settledJobs' = Append(settledJobs, captureQueueRef[k].actionId)
    /\ stopCall' = IF stopCall.pc = "awaitQueue" /\ stopCall.awaits > 0
                   THEN [stopCall EXCEPT !.awaits = @ - 1]
                   ELSE stopCall

\* Faulty variant, to test that the properties below depend on the rule:
\* without the catch the chain's promise stays rejected, and the jobs chained
\* behind the failed one are never called.
uncaught(queue, k) == SubSeq(queue, 1, k - 1)
\* .catch((error) => console.error(...)): the promise of the chain resolves,
\* the jobs chained behind the failed one stay in line
caught(queue, k) == removeAt(queue, k)

\* The job throws: enqueue's catch logs the error, and the chain moves on as
\* after a job that returned.
jobRejected(k) ==
    /\ captureQueueRef' = caught(captureQueueRef, k)
    /\ settledJobs' = Append(settledJobs, captureQueueRef[k].actionId)
    /\ stopCall' = IF stopCall.pc = "awaitQueue" /\ stopCall.awaits > 0
                   THEN [stopCall EXCEPT !.awaits = @ - 1]
                   ELSE stopCall

jobContinues(k, job) ==
    /\ captureQueueRef' = [captureQueueRef EXCEPT ![k] = job]
    /\ UNCHANGED <<settledJobs, stopCall>>

\* The capture effect, run after a render in which actions or isRecording
\* changed: it looks at the latest action only.
CaptureEffect ==
    /\ effectPending
    /\ effectPending' = FALSE
    /\ IF actions = <<>>
       THEN UNCHANGED <<lastSeenActionIdRef, captureQueueRef>>
       ELSE LET latest == actions[Len(actions)]
            IN  IF latest.actionId = lastSeenActionIdRef
                THEN UNCHANGED <<lastSeenActionIdRef, captureQueueRef>>
                ELSE /\ lastSeenActionIdRef' = latest.actionId
                     /\ captureQueueRef' =
                           IF isRecording /\ canCapture
                           THEN enqueue(captureQueueRef, captureJob(latest))
                           ELSE captureQueueRef
    /\ UNCHANGED <<now, normVars, hasPermissions, channel, actions, hist, steps,
                   budget, cleared, uploadVars, recorderVars>>
    /\ UNCHANGED <<isRecording, isCapturing, sessionIdRef, screenshotServiceRef,
                   screenshotMetaRef, startPc, stopCall, settledJobs, exported,
                   captureLog>>

\* The chain reaches job k: its async function starts and calls
\* captureAndPersist for its first phase.
jobStarts(k) ==
    LET job == captureQueueRef[k]
        phase == firstPhase(job.type)
    IN  /\ job.pc = "queued"
        /\ mayStart(captureQueueRef, k)
        /\ IF phase = "none"
           THEN jobSettled(k)
           ELSE IF canCapture
           THEN jobContinues(k, [job EXCEPT !.pc = "capture", !.phase = phase])
           ELSE IF phase = "before"
           THEN jobContinues(k, [job EXCEPT !.pc = "settle", !.phase = phase,
                                            !.wake = now + settleDelayMs])
           ELSE jobSettled(k)
        /\ captureLog' =
              IF phase # "none" /\ canCapture
              THEN Append(captureLog, logged("start", [job EXCEPT !.phase = phase]))
              ELSE captureLog
        /\ UNCHANGED <<now, normVars, hasPermissions, channel, actions, hist,
                       steps, budget, cleared, uploadVars, recorderVars>>
        /\ UNCHANGED <<isRecording, isCapturing, sessionIdRef,
                       screenshotServiceRef, screenshotMetaRef,
                       lastSeenActionIdRef, effectPending, startPc, exported>>

\* service.capture({actionId, phase}) resolves, with the position of the
\* captured frame on the media timeline (read off the clock here), or rejects
captureSettles(k, ok) ==
    LET job == captureQueueRef[k]
    IN  /\ job.pc = "capture"
        /\ IF ok
           THEN /\ jobContinues(k, [job EXCEPT !.pc = "persist", !.stamp = now])
                /\ UNCHANGED captureLog
           ELSE /\ jobRejected(k)
                /\ captureLog' = Append(captureLog, logged("failed", job))
        /\ UNCHANGED <<now, normVars, hasPermissions, channel, actions, hist,
                       steps, budget, cleared, uploadVars, recorderVars>>
        /\ UNCHANGED <<isRecording, isCapturing, sessionIdRef,
                       screenshotServiceRef, screenshotMetaRef,
                       lastSeenActionIdRef, effectPending, startPc, exported>>

\* persistScreenshot resolves (the entry is pushed to screenshotMetaRef and
\* the action is updated) or rejects
persistSettles(k, ok) ==
    LET job == captureQueueRef[k]
    IN  /\ job.pc = "persist"
        /\ IF ~ok
           THEN /\ jobRejected(k)
                /\ captureLog' = Append(captureLog, logged("failed", job))
                /\ UNCHANGED <<screenshotMetaRef, actions, effectPending>>
           ELSE /\ captureLog' = Append(captureLog, logged("done", job))
                /\ screenshotMetaRef' =
                      Append(screenshotMetaRef,
                             [actionId |-> job.actionId, phase |-> job.phase,
                              screenshotRef |-> persistedRef(job)])
                /\ IF job.type = "session_end"
                   THEN UNCHANGED <<actions, effectPending>>
                   ELSE /\ actions' = updateAction(actions, job.actionId,
                                                   patchOf(job))
                        /\ effectPending' = TRUE
                /\ IF job.phase = "before"
                   THEN jobContinues(k, [job EXCEPT !.pc = "settle",
                                                    !.wake = now + settleDelayMs])
                   ELSE jobSettled(k)
        /\ UNCHANGED <<now, normVars, hasPermissions, channel, hist,
                       steps, budget, cleared, uploadVars, recorderVars>>
        /\ UNCHANGED <<isRecording, isCapturing, sessionIdRef,
                       screenshotServiceRef, lastSeenActionIdRef, startPc,
                       exported>>

\* the 120 ms settle timer of a click / keypress job fires: the after capture
settleElapsed(k) ==
    LET job == captureQueueRef[k]
    IN  /\ job.pc = "settle"
        /\ now >= job.wake
        /\ IF canCapture
           THEN jobContinues(k, [job EXCEPT !.pc = "capture", !.phase = "after",
                                            !.wake = Null])
           ELSE jobSettled(k)
        /\ captureLog' =
              IF canCapture
              THEN Append(captureLog, logged("start", [job EXCEPT !.phase = "after"]))
              ELSE captureLog
        /\ UNCHANGED <<now, normVars, hasPermissions, channel, actions, hist,
                       steps, budget, cleared, uploadVars, recorderVars>>
        /\ UNCHANGED <<isRecording, isCapturing, sessionIdRef,
                       screenshotServiceRef, screenshotMetaRef,
                       lastSeenActionIdRef, effectPending, startPc, exported>>

\* ---- useRecorder: the chunks of the MediaRecorder, streamed to disk

\* the write job chained for the chunk of a dataavailable event, with the
\* session id read when the event fired
chunkJob(n, sid) == [chunk |-> n, sessionId |-> sid, pc |-> "queued"]

\* observation of the video stream of the main process: a chunk write begins
\* ("begin"), is appended ("end") or fails ("failed"); the stream is finalized
chunkLogged(ev, job) == [ev |-> ev, chunk |-> job.chunk, sessionId |-> job.sessionId]
finalized(sid) == [ev |-> "finalize", chunk |-> 0, sessionId |-> sid]

\* Faulty variant, to test that the properties below depend on the rule:
\* the write is started at once instead of chained.
chunkMayStartAtOnce(queue, k) == TRUE
\* chunkQueueRef.current = chunkQueueRef.current.then(async () => {...}):
\* write k starts when every write chained before it has settled.
\* chunkQueueRef holds the writes that have not settled yet, in chain order.
chunkMayStart(queue, k) == k = 1

recorderOnly ==
    UNCHANGED <<now, normVars, hasPermissions, channel, actions, coordVars,
                uploadVars, hist, budget, cleared>>

\* mediaRecorder.ondataavailable: every timeslice while recording, and once
\* more, with what is left, when stop() was called. An empty blob, or one
\* that arrives without a session, is dropped.
ondataavailable(size) ==
    /\ mediaRecorderRef \in {"recording", "stopping"}
    /\ size > 0 => chunkCount < MaxChunks
    /\ IF mediaRecorderRef = "recording"
       THEN steps < budget /\ steps' = steps + 1
       ELSE UNCHANGED steps
    /\ chunkCount' = IF size > 0 THEN chunkCount + 1 ELSE chunkCount
    /\ chunkQueueRef' =
          IF size > 0 /\ recorderSessionIdRef # Null
          THEN Append(chunkQueueRef, chunkJob(chunkCount + 1, recorderSessionIdRef))
          ELSE chunkQueueRef
    /\ mediaRecorderRef' = IF mediaRecorderRef = "stopping"
                           THEN "flushed"
                           ELSE mediaRecorderRef
    /\ UNCHANGED <<recorderSessionIdRef, onstop, videoFile, videoLog>>
    /\ recorderOnly

\* The chain reaches write k: event.data.arrayBuffer() is called.
chunkStarts(k) ==
    /\ chunkQueueRef[k].pc = "queued"
    /\ chunkMayStart(chunkQueueRef, k)
    /\ chunkQueueRef' = [chunkQueueRef EXCEPT ![k].pc = "reading"]
    /\ videoLog' = Append(videoLog, chunkLogged("begin", chunkQueueRef[k]))
    /\ UNCHANGED <<mediaRecorderRef, recorderSessionIdRef, onstop, videoFile,
                   chunkCount, steps>>
    /\ recorderOnly

\* The promise of write k settles; the try/catch of the job has logged a
\* failure, so the chain moves on, and an onstop awaiting the chain counts it.
chunkSettled(k) ==
    /\ chunkQueueRef' = removeAt(chunkQueueRef, k)
    /\ onstop' = IF onstop.pc = "awaitChunks" /\ k <= onstop.awaits
                 THEN [onstop EXCEPT !.awaits = @ - 1]
                 ELSE onstop

\* arrayBuffer() resolves, and "appendVideoChunk" is invoked, or rejects
chunkRead(k, ok) ==
    /\ chunkQueueRef[k].pc = "reading"
    /\ IF ok
       THEN /\ chunkQueueRef' = [chunkQueueRef EXCEPT ![k].pc = "writing"]
            /\ UNCHANGED <<onstop, videoLog>>
       ELSE /\ chunkSettled(k)
            /\ videoLog' = Append(videoLog, chunkLogged("failed", chunkQueueRef[k]))
    /\ UNCHANGED <<mediaRecorderRef, recorderSessionIdRef, videoFile, chunkCount,
                   steps>>
    /\ recorderOnly

\* "appendVideoChunk" resolves, the chunk appended to the file, or rejects
chunkWritten(k, ok) ==
    /\ chunkQueueRef[k].pc = "writing"
    /\ chunkSettled(k)
    /\ videoFile' = IF ok
                    THEN Append(videoFile, [sessionId |-> chunkQueueRef[k].sessionId,
                                            chunk |-> chunkQueueRef[k].chunk])
                    ELSE videoFile
    /\ videoLog' = Append(videoLog, chunkLogged(IF ok THEN "end" ELSE "failed",
                                                chunkQueueRef[k]))
    /\ UNCHANGED <<mediaRecorderRef, recorderSessionIdRef, chunkCount, steps>>
    /\ recorderOnly

\* mediaRecorder.onstop, up to its await chunkQueueRef.current: the promise
\* awaited is the chain as it is now
onstopFires ==
    /\ mediaRecorderRef = "flushed"
    /\ mediaRecorderRef' = "inactive"
    /\ onstop' = [pc |-> "awaitChunks", awaits |-> Len(chunkQueueRef),
                  success |-> FALSE]
    /\ UNCHANGED <<recorderSessionIdRef, chunkQueueRef, videoFile, videoLog,
                   chunkCount, steps>>
    /\ recorderOnly

\* the awaited chain has settled: "finalizeVideoStream" is invoked for the
\* session, and its result, or null, resolves the promise of stopRecording()
finalizeVideoStream(ok) ==
    /\ onstop.pc = "awaitChunks"
    /\ onstop.awaits = 0
    /\ IF recorderSessionIdRef # Null
       THEN /\ videoLog' = Append(videoLog, finalized(recorderSessionIdRef))
            /\ onstop' = [onstop EXCEPT !.pc = "resolved", !.success = ok]
       ELSE /\ UNCHANGED videoLog
            /\ onstop' = [onstop EXCEPT !.pc = "resolved", !.success = FALSE]
    /\ UNCHANGED <<mediaRecorderRef, recorderSessionIdRef, chunkQueueRef,
                   videoFile, chunkCount, steps>>
    /\ recorderOnly

\* handleStart, up to its first await
handleStart ==
    /\ startPc = "idle"
    /\ ~isRecording
    /\ steps < budget
    /\ steps' = steps + 1
    /\ sessionIdRef' = sessionIdRef + 1
    /\ screenshotMetaRef' = <<>>
    /\ lastSeenActionIdRef' = NoActionId
    /\ actions' = <<>>
    /\ cleared' = cleared + Len(actions)
    /\ effectPending' = TRUE
    /\ startPc' = "startRecording"
    /\ UNCHANGED <<now, normVars, hasPermissions, channel, hist, budget,
                   uploadVars, recorderVars>>
    /\ UNCHANGED <<isRecording, isCapturing, screenshotServiceRef,
                   captureQueueRef, stopCall, settledJobs, exported,
                   captureLog>>

\* startRecording(sessionId) returns, with the recorder running or not; the
\* screenshot service is created
startRecording(ok) ==
    /\ startPc = "startRecording"
    /\ isRecording' = ok
    /\ recorderSessionIdRef' = sessionIdRef
    /\ mediaRecorderRef' = IF ok THEN "recording" ELSE mediaRecorderRef
    /\ effectPending' = (effectPending \/ ok)
    /\ screenshotServiceRef' = "created"
    /\ startPc' = "warm"
    /\ UNCHANGED <<chunkQueueRef, onstop, videoFile, videoLog, chunkCount>>
    /\ UNCHANGED <<now, normVars, hasPermissions, channel, actions, hist, steps,
                   budget, cleared, uploadVars>>
    /\ UNCHANGED <<isCapturing, sessionIdRef, screenshotMetaRef, captureQueueRef,
                   lastSeenActionIdRef, stopCall, settledJobs, exported,
                   captureLog>>

\* service.warm() settles: the video source has drawn a frame (ok), or the
\* warm-up threw; the failure is caught and logged, and handleStart goes on
warm(ok) ==
    /\ startPc = "warm"
    /\ startPc' = "startCapture"
    /\ screenshotServiceRef' = IF ok THEN "warm" ELSE "failed"
    /\ UNCHANGED <<now, normVars, hasPermissions, channel, actions, hist, steps,
                   budget, cleared, uploadVars, recorderVars>>
    /\ UNCHANGED <<isRecording, isCapturing, sessionIdRef,
                   screenshotMetaRef, captureQueueRef, lastSeenActionIdRef,
                   effectPending, stopCall, settledJobs, exported,
                   captureLog>>

\* startCapture(sessionId): invokes "startInputCapture" unless already capturing
startCapture ==
    /\ startPc = "startCapture"
    /\ startPc' = "idle"
    /\ IF isCapturing
       THEN UNCHANGED <<now, normVars, hasPermissions, channel, hist, isCapturing>>
       ELSE IF isRunning \/ ~mayAcquire
       THEN /\ hist' = Append(hist, Invoked(IF isRunning THEN "start_noop"
                                            ELSE "start_denied", Pt(0, 0)))
            /\ isCapturing' = isRunning
            /\ UNCHANGED <<now, normVars, hasPermissions, channel>>
       ELSE /\ start(sessionIdRef)
            /\ isCapturing' = TRUE
    /\ UNCHANGED <<actions, steps, budget, cleared, uploadVars, recorderVars>>
    /\ UNCHANGED <<isRecording, sessionIdRef, screenshotServiceRef,
                   screenshotMetaRef, captureQueueRef, lastSeenActionIdRef,
                   effectPending, stopCall, settledJobs, exported,
                   captureLog>>

\* handleStop, up to its first await: stopCapture() and stopRecording() are
\* called, the save dialog is shown
handleStop ==
    /\ stopCall.pc = "idle"
    /\ steps < budget
    /\ steps' = steps + 1
    /\ stopCall' = IF sessionIdRef = 0
                   THEN stopCall
                   ELSE [pc |-> "pending", sessionId |-> sessionIdRef,
                         actions |-> actions, awaits |-> 0,
                         ipc |-> isCapturing, canceled |-> FALSE,
                         video |-> isRecording]
    /\ mediaRecorderRef' = IF sessionIdRef # 0 /\ isRecording
                           THEN "stopping"
                           ELSE mediaRecorderRef
    /\ UNCHANGED <<recorderSessionIdRef, chunkQueueRef, onstop, videoFile,
                   videoLog, chunkCount>>
    /\ UNCHANGED <<now, normVars, hasPermissions, channel, actions, hist,
                   budget, cleared, uploadVars>>
    /\ UNCHANGED <<isRecording, isCapturing, sessionIdRef, screenshotServiceRef,
                   screenshotMetaRef, captureQueueRef, lastSeenActionIdRef,
                   effectPending, startPc, settledJobs, exported,
                   captureLog>>

\* stopCapture(): the "stopInputCapture" invocation reaches InputService.stop()
stopInputCapture ==
    /\ stopCall.ipc
    /\ stopCall' = [stopCall EXCEPT !.ipc = FALSE]
    /\ isCapturing' = FALSE
    /\ stop
    /\ UNCHANGED <<actions, steps, budget, cleared, uploadVars, recorderVars>>
    /\ UNCHANGED <<isRecording, sessionIdRef, screenshotServiceRef,
                   screenshotMetaRef, captureQueueRef, lastSeenActionIdRef,
                   effectPending, startPc, settledJobs, exported,
                   captureLog>>

\* the save dialog is answered and stopRecording() has returned; handleStop
\* goes on to await captureQueueRef.current. stopRecording() returns null at
\* once when nothing is recorded, else once onstop has resolved its promise;
\* with no chunk write pending and no data left in the recorder, the stop
\* event and the finalization are part of this step.
stopResolved(canceled) ==
    /\ stopCall.pc = "pending"
    /\ isRecording' = FALSE
    /\ effectPending' = (effectPending \/ isRecording)
    /\ IF ~stopCall.video
       THEN /\ stopCall' = [stopCall EXCEPT !.pc = "awaitQueue",
                                            !.awaits = Len(captureQueueRef),
                                            !.canceled = canceled]
            /\ UNCHANGED recorderVars
       ELSE IF onstop.pc = "resolved"
       THEN /\ stopCall' = [stopCall EXCEPT !.pc = "awaitQueue",
                                            !.awaits = Len(captureQueueRef),
                                            !.canceled = canceled,
                                            !.video = onstop.success]
            /\ onstop' = [onstop EXCEPT !.pc = "idle"]
            /\ recorderSessionIdRef' = Null
            /\ UNCHANGED <<mediaRecorderRef, chunkQueueRef, videoFile, videoLog,
                           chunkCount>>
       ELSE /\ mediaRecorderRef = "stopping"
            /\ chunkQueueRef = <<>>
            /\ stopCall' = [stopCall EXCEPT !.pc = "awaitQueue",
                                            !.awaits = Len(captureQueueRef),
                                            !.canceled = canceled]
            /\ mediaRecorderRef' = "inactive"
            /\ videoLog' = Append(videoLog, finalized(recorderSessionIdRef))
            /\ recorderSessionIdRef' = Null
            /\ UNCHANGED <<chunkQueueRef, onstop, videoFile, chunkCount>>
    /\ UNCHANGED <<now, normVars, hasPermissions, channel, actions, hist, steps,
                   budget, cleared, uploadVars>>
    /\ UNCHANGED <<isCapturing, sessionIdRef, screenshotServiceRef,
                   screenshotMetaRef, captureQueueRef, lastSeenActionIdRef,
                   startPc, settledJobs, exported,
                   captureLog>>

\* the awaited chain has settled: the final screenshot is enqueued and the
\* bundle is exported
stopContinues ==
    /\ stopCall.pc = "awaitQueue"
    /\ stopCall.awaits = 0
    /\ stopCall' = [stopCall EXCEPT !.pc = "idle"]
    /\ IF stopCall.canceled
       THEN UNCHANGED <<captureQueueRef, exported>>
       ELSE /\ captureQueueRef' =
                  IF screenshotServiceRef # "null"
                  THEN enqueue(captureQueueRef, sessionEndJob)
                  ELSE captureQueueRef
            /\ exported' =
                  IF stopCall.video
                  THEN Append(exported, [sessionId |-> stopCall.sessionId,
                                         actions |-> stopCall.actions,
                                         screenshots |-> screenshotMetaRef])
                  ELSE exported
    /\ UNCHANGED <<now, normVars, hasPermissions, channel, actions, hist, steps,
                   budget, cleared, uploadVars, recorderVars>>
    /\ UNCHANGED <<isRecording, isCapturing, sessionIdRef, screenshotServiceRef,
                   screenshotMetaRef, lastSeenActionIdRef, effectPending,
                   startPc, settledJobs, captureLog>>

(***************************************************************************)
(* UploadQueue (main process), as planned in history/upload-system-plan.md *)
(***************************************************************************)
backoffBaseMs == 1000
backoffCapMs == 300000

Sessions == 1..MaxUploadSessions

\* UploadState of a session never uploaded, under a configured retry limit
newUploadState(limit) ==
    [status |-> "not_uploaded", retryCount |-> 0, bytesUploaded |-> 0,
     maxRetries |-> limit, lastError |-> "none"]

\* UploadState of a session never uploaded
NotUploaded == newUploadState(maxRetries)

\* Faulty variant, to test that the properties below depend on the rule:
\* the delay is computed from the count after the failure was added to it.
backoffDelayFromNextCount(n) == Min({backoffBaseMs * 2^(n + 1), backoffCapMs})
\* min(1000 * 2^retryCount, 300000)
backoffDelay(n) == Min({backoffBaseMs * 2^n, backoffCapMs})

\* every change of what the model holds outside the upload queue
uploadOnly ==
    UNCHANGED <<normVars, hasPermissions, channel, actions, coordVars, hist,
                budget, cleared, recorderVars>>

\* a user action or a transfer failure: counted against the budget of the run
UploadStep ==
    /\ steps < budget
    /\ steps' = steps + 1
    /\ uploadOnly

\* a step of the queue's own worker
WorkerStep ==
    /\ processUp
    /\ UNCHANGED steps
    /\ uploadOnly

\* the operation the queue has just performed, and on which session
did(name, s) == uploadOp' = [op |-> name, sessionId |-> s]

\* enqueue(sessionId): not_uploaded -> pending, appended to the FIFO
uploadEnqueue(s) ==
    /\ processUp
    /\ uploadState[s].status = "not_uploaded"
    /\ UploadStep
    /\ uploadState' = [uploadState EXCEPT ![s].status = "pending"]
    /\ uploadQueue' = Append(uploadQueue, s)
    /\ did("enqueue", s)
    /\ UNCHANGED <<now, activeUpload, transferred, backoffUntil, processUp,
                   interrupted, failures>>

\* Faulty variant, to test that the properties below depend on the rule:
\* the worker does not look at the active transfer.
canPickUpAlways == TRUE
\* the worker takes the next session only when no transfer is active
canPickUp == activeUpload = 0

\* worker pickup: pending -> uploading; the transfer starts at byte 0
pickUp ==
    /\ WorkerStep
    /\ uploadQueue # <<>>
    /\ canPickUp
    /\ LET s == Head(uploadQueue)
       IN  /\ uploadState' = [uploadState EXCEPT ![s].status = "uploading",
                                                 ![s].bytesUploaded = 0]
           /\ activeUpload' = s
           /\ did("pickUp", s)
    /\ uploadQueue' = Tail(uploadQueue)
    /\ transferred' = 0
    /\ UNCHANGED <<now, backoffUntil, processUp, interrupted, failures>>

\* a progress callback: the state file is rewritten with the bytes sent
uploadProgress ==
    /\ WorkerStep
    /\ activeUpload # 0
    /\ backoffUntil = Null
    /\ transferred < TotalChunks
    /\ transferred' = transferred + 1
    /\ uploadState' = [uploadState EXCEPT
                          ![activeUpload].bytesUploaded = transferred + 1]
    /\ did("progress", activeUpload)
    /\ UNCHANGED <<now, uploadQueue, activeUpload, backoffUntil, processUp,
                   interrupted, failures>>

\* the transfer completes: uploading -> done
uploadSuccess ==
    /\ WorkerStep
    /\ activeUpload # 0
    /\ backoffUntil = Null
    /\ transferred = TotalChunks
    /\ uploadState' = [uploadState EXCEPT ![activeUpload].status = "done"]
    /\ activeUpload' = 0
    /\ did("success", activeUpload)
    /\ UNCHANGED <<now, uploadQueue, transferred, backoffUntil, processUp,
                   interrupted, failures>>

\* Faulty variant, to test that the properties below depend on the rule:
\* the count is compared with the limit before the failure is added to it.
retriesExhaustedLate(st) == st.retryCount >= st.maxRetries
\* the failure being handled is the maxRetries-th one
retriesExhausted(st) == st.retryCount + 1 >= st.maxRetries

\* a retryable failure (network, timeout, 5xx): the failure is counted; with
\* retries left the worker waits for the backoff delay, else uploading -> failed
uploadFailsRetryable ==
    /\ processUp
    /\ activeUpload # 0
    /\ backoffUntil = Null
    /\ UploadStep
    /\ LET st == uploadState[activeUpload]
       IN  IF retriesExhausted(st)
           THEN /\ uploadState' = [uploadState EXCEPT
                                      ![activeUpload].retryCount = st.retryCount + 1,
                                      ![activeUpload].status = "failed",
                                      ![activeUpload].lastError = "retryable"]
                /\ activeUpload' = 0
                /\ UNCHANGED backoffUntil
           ELSE /\ uploadState' = [uploadState EXCEPT
                                      ![activeUpload].retryCount = st.retryCount + 1,
                                      ![activeUpload].lastError = "retryable"]
                /\ backoffUntil' = now + backoffDelay(st.retryCount)
                /\ UNCHANGED activeUpload
    /\ failures' = [failures EXCEPT ![activeUpload] = @ + 1]
    /\ did("failsRetryable", activeUpload)
    /\ UNCHANGED <<now, uploadQueue, transferred, processUp, interrupted>>

\* the backoff delay has elapsed: uploading -> pending, back in the FIFO
backoffElapses ==
    /\ WorkerStep
    /\ backoffUntil # Null
    /\ now >= backoffUntil
    /\ uploadState' = [uploadState EXCEPT ![activeUpload].status = "pending"]
    /\ uploadQueue' = Append(uploadQueue, activeUpload)
    /\ activeUpload' = 0
    /\ backoffUntil' = Null
    /\ did("backoffElapses", activeUpload)
    /\ UNCHANGED <<now, transferred, processUp, interrupted, failures>>

\* the UploadState after a permanent error: failed, the count as it was
failedPermanently(st) ==
    [st EXCEPT !.status = "failed", !.lastError = "permanent"]

\* a permanent failure (auth, not found, malformed): uploading -> failed at once
uploadFailsPermanent ==
    /\ processUp
    /\ activeUpload # 0
    /\ backoffUntil = Null
    /\ UploadStep
    /\ uploadState' = [uploadState EXCEPT
                          ![activeUpload] = failedPermanently(@)]
    /\ activeUpload' = 0
    /\ did("failsPermanent", activeUpload)
    /\ UNCHANGED <<now, uploadQueue, transferred, backoffUntil, processUp,
                   interrupted, failures>>

\* Faulty variant, to test that the properties below depend on the rule:
\* the cancelled session is treated like a failed attempt and stays pending.
cancelledStaysPending(st) == [st EXCEPT !.status = "pending"]
\* the UploadState after cancel(): not_uploaded, the partial progress dropped
cancelled(st) == [st EXCEPT !.status = "not_uploaded", !.bytesUploaded = 0]

\* cancel(): the in-flight upload is aborted: uploading -> not_uploaded
uploadCancel ==
    /\ processUp
    /\ activeUpload # 0
    /\ UploadStep
    /\ uploadState' = [uploadState EXCEPT ![activeUpload] = cancelled(@)]
    /\ activeUpload' = 0
    /\ transferred' = 0
    /\ backoffUntil' = Null
    /\ did("cancel", activeUpload)
    /\ UNCHANGED <<now, uploadQueue, processUp, interrupted, failures>>

\* Faulty variant, to test that the properties below depend on the rule:
\* retry() re-enqueues the session with the count it had.
retriedKeepsCount(st) == [st EXCEPT !.status = "pending"]
\* the UploadState after retry(): pending, retryCount reset
retried(st) == [st EXCEPT !.status = "pending", !.retryCount = 0]

\* retry(sessionId): failed -> pending, retryCount reset
uploadRetry(s) ==
    /\ processUp
    /\ uploadState[s].status = "failed"
    /\ UploadStep
    /\ uploadState' = [uploadState EXCEPT ![s] = retried(@)]
    /\ uploadQueue' = Append(uploadQueue, s)
    /\ failures' = [failures EXCEPT ![s] = 0]
    /\ did("retry", s)
    /\ UNCHANGED <<now, activeUpload, transferred, backoffUntil, processUp,
                   interrupted>>

\* the process dies: what is in memory is lost, the state files stay
processCrash ==
    /\ processUp
    /\ UploadStep
    /\ processUp' = FALSE
    /\ uploadQueue' = <<>>
    /\ activeUpload' = 0
    /\ transferred' = 0
    /\ backoffUntil' = Null
    /\ did("crash", 0)
    /\ UNCHANGED <<now, uploadState, interrupted, failures>>

\* Faulty variant, to test that the properties below depend on the rule:
\* restore() re-enqueues every failed session, whatever its retryCount.
restoreStateRequeuesFailed(st) ==
    IF st.status \in {"uploading", "failed"}
    THEN [st EXCEPT !.status = "pending"]
    ELSE st
\* Faulty variant, to test that the properties below depend on the rule:
\* restore() leaves the state files as they are.
restoreStateKeepsUploading(st) == st
\* restore(), per state file: an interrupted upload goes back to pending, a
\* failed one with retries left too
restoreState(st) ==
    IF st.status = "uploading"
       \/ (st.status = "failed" /\ st.retryCount < st.maxRetries)
    THEN [st EXCEPT !.status = "pending"]
    ELSE st

\* the sessions of S in ascending order
RECURSIVE inOrder(_)
inOrder(S) == IF S = {} THEN <<>> ELSE <<Min(S)>> \o inOrder(S \ {Min(S)})

\* restore() on startup: scan the state files, re-enqueue what is pending
restore ==
    /\ ~processUp
    /\ processUp' = TRUE
    /\ uploadState' = [s \in Sessions |-> restoreState(uploadState[s])]
    /\ uploadQueue' = inOrder({s \in Sessions : uploadState'[s].status = "pending"})
    /\ interrupted' = [s \in Sessions |->
                          IF uploadState[s].status = "uploading"
                          THEN uploadState[s].bytesUploaded
                          ELSE interrupted[s]]
    /\ did("restore", 0)
    /\ UNCHANGED <<now, steps, activeUpload, transferred, backoffUntil, failures>>
    /\ uploadOnly

\* the state after construction, the UploadState records apart
InitProgram ==
    /\ now = EpochMs
    /\ sessionId = 0
    /\ sessionStartTime = 0
    /\ callback = "null"
    /\ isRunning = FALSE
    /\ scrollTimeout = Null
    /\ isScrolling = FALSE
    /\ lastScrollCoords = Pt(0, 0)
    /\ lastClickTime = 0
    /\ lastClickCoords = Pt(0, 0)
    /\ clickCount = 0
    /\ isLeftButtonDown = FALSE
    /\ isDragging = FALSE
    /\ dragStartCoords = Pt(0, 0)
    /\ moveTimeout = Null
    /\ isMoving = FALSE
    /\ lastMoveCoords = Pt(0, 0)
    /\ actionCounter = 0
    /\ timers = {}
    /\ hasPermissions = TRUE
    /\ channel = <<>>
    /\ actions = <<>>
    /\ hist = <<>>
    /\ steps = 0
    /\ cleared = 0
    /\ isRecording = FALSE
    /\ isCapturing = FALSE
    /\ sessionIdRef = 0
    /\ screenshotServiceRef = "null"
    /\ screenshotMetaRef = <<>>
    /\ captureQueueRef = <<>>
    /\ lastSeenActionIdRef = NoActionId
    /\ effectPending = FALSE
    /\ startPc = "idle"
    /\ stopCall = [pc |-> "idle", sessionId |-> 0, actions |-> <<>>,
                   awaits |-> 0, ipc |-> FALSE,
                   canceled |-> FALSE, video |-> FALSE]
    /\ settledJobs = <<>>
    /\ exported = <<>>
    /\ captureLog = <<>>
    /\ mediaRecorderRef = "null"
    /\ recorderSessionIdRef = Null
    /\ chunkQueueRef = <<>>
    /\ onstop = [pc |-> "idle", awaits |-> 0, success |-> FALSE]
    /\ videoFile = <<>>
    /\ videoLog = <<>>
    /\ chunkCount = 0
    /\ uploadQueue = <<>>
    /\ activeUpload = 0
    /\ transferred = 0
    /\ backoffUntil = Null
    /\ processUp = TRUE
    /\ interrupted = [s \in Sessions |-> Null]
    /\ failures = [s \in Sessions |-> 0]
    /\ uploadOp = [op |-> "none", sessionId |-> 0]

\* the state after construction, maxRetries as configured for the runs below
InitNorm ==
    /\ InitProgram
    /\ uploadState = [s \in Sessions |-> NotUploaded]

\* ---- the whole InputService, every handler
Init == InitNorm /\ budget = MaxSteps

Next ==
    \/ Start
    \/ StartRefused
    \/ Stop
    \/ SetPermission
    \/ \E e \in DownEvents : handleLeftMouseDown(e)
    \/ \E e \in {Pt(100, 100)} : handleRightMouseDown(e)
    \/ \E e \in {NoCoords} : handleOtherMouseDown(e)
    \/ \E e \in DragEvents : handleLeftMouseUp(e)
    \/ \E e \in DragEvents : handleLeftMouseDragged(e)
    \/ \E e \in {KeyEvent(0, "shift")} : handleKeyDown(e)
    \/ \E e \in MoveEvents : handleMouseWheel(e)
    \/ \E e \in MoveEvents : handleMouseMoved(e)
    \/ emitScrollEnd
    \/ emitMoveEnd
    \/ TickFine
    \/ TickToTimer
    \/ TickClick

Spec == Init /\ [][Next]_vars

\* ---- InputService, the IPC channel and the renderer's action list
InitPipe == InitNorm /\ budget = MaxPipeSteps

NextPipe ==
    \/ Next
    \/ handleAction
    \/ clearActions

SpecPipe == InitPipe /\ [][NextPipe]_vars

\* ---- button-down events and the click threshold
InitClick == InitNorm /\ budget = MaxClickSteps

NextClick ==
    \/ Start
    \/ Stop
    \/ \E e \in ClickEvents : handleLeftMouseDown(e)
    \/ \E e \in DownEvents : handleRightMouseDown(e)
    \/ \E e \in {Pt(100, 100)} : handleOtherMouseDown(e)
    \/ TickClick

SpecClick == InitClick /\ [][NextClick]_vars

\* ---- left button, drag and hover
InitPointer == InitNorm /\ budget = MaxPointerSteps

NextPointer ==
    \/ Start
    \/ Stop
    \/ \E e \in DownEvents : handleLeftMouseDown(e)
    \/ \E e \in DragEvents : handleLeftMouseUp(e)
    \/ \E e \in DragEvents : handleLeftMouseDragged(e)
    \/ \E e \in MoveEvents : handleMouseMoved(e)
    \/ emitMoveEnd
    \/ TickFine
    \/ TickToTimer

SpecPointer == InitPointer /\ [][NextPointer]_vars

\* ---- wheel and hover debouncing
InitScroll == InitNorm /\ budget = MaxScrollSteps

NextScroll ==
    \/ Start
    \/ Stop
    \/ \E e \in MoveEvents : handleMouseWheel(e)
    \/ \E e \in MoveEvents : handleMouseMoved(e)
    \/ emitScrollEnd
    \/ emitMoveEnd
    \/ TickFine
    \/ TickToTimer

SpecScroll == InitScroll /\ [][NextScroll]_vars

\* ---- the capture coordinator, fed by key and wheel events
InitCapture == InitNorm /\ budget = MaxCaptureSteps

NextCapture ==
    \/ handleStart
    \/ \E ok \in BOOLEAN : startRecording(ok)
    \/ \E ok \in {TRUE} : warm(ok)
    \/ startCapture
    \/ handleStop
    \/ stopInputCapture
    \/ \E canceled \in BOOLEAN : stopResolved(canceled)
    \/ stopContinues
    \/ \E e \in {KeyEvent(0, "shift")} : handleKeyDown(e)
    \/ \E e \in {Pt(100, 100)} : handleMouseWheel(e)
    \/ emitScrollEnd
    \/ TickToTimer
    \/ handleAction
    \/ CaptureEffect
    \/ \E k \in DOMAIN captureQueueRef : jobStarts(k)
    \/ \E k \in DOMAIN captureQueueRef : \E ok \in BOOLEAN : captureSettles(k, ok)
    \/ \E k \in DOMAIN captureQueueRef : \E ok \in BOOLEAN : persistSettles(k, ok)
    \/ \E k \in DOMAIN captureQueueRef : settleElapsed(k)

SpecCapture == InitCapture /\ [][NextCapture]_vars

\* ---- the capture jobs of one recording, fed by key, button, wheel and move events
InitJobs == InitNorm /\ budget = MaxJobSteps

NextJobs ==
    \/ handleStart
    \/ \E ok \in BOOLEAN : startRecording(ok)
    \/ \E ok \in {TRUE} : warm(ok)
    \/ startCapture
    \/ \E e \in {KeyEvent(0, "shift")} : handleKeyDown(e)
    \/ \E e \in {Pt(100, 100)} : handleLeftMouseDown(e)
    \/ \E e \in {Pt(100, 100)} : handleMouseWheel(e)
    \/ \E e \in {Pt(100, 100)} : handleMouseMoved(e)
    \/ emitScrollEnd
    \/ emitMoveEnd
    \/ TickToTimer
    \/ handleAction
    \/ CaptureEffect
    \/ \E k \in DOMAIN captureQueueRef : jobStarts(k)
    \/ \E k \in DOMAIN captureQueueRef : \E ok \in BOOLEAN : captureSettles(k, ok)
    \/ \E k \in DOMAIN captureQueueRef : \E ok \in BOOLEAN : persistSettles(k, ok)
    \/ \E k \in DOMAIN captureQueueRef : settleElapsed(k)

SpecJobs == InitJobs /\ [][NextJobs]_vars

\* ---- raw events with missing fields
InitRaw == InitNorm /\ budget = MaxRawSteps

NextRaw ==
    \/ Start
    \/ Stop
    \/ \E e \in KeyEvents : handleKeyDown(e)
    \/ \E e \in {NoCoords, Pt(Null, 100)} : handleLeftMouseDown(e)
    \/ \E e \in {NoCoords} : handleRightMouseDown(e)
    \/ \E e \in {NoCoords} : handleLeftMouseDragged(e)
    \/ \E e \in {NoCoords} : handleLeftMouseUp(e)
    \/ \E e \in {NoCoords} : handleMouseWheel(e)
    \/ \E e \in {NoCoords} : handleMouseMoved(e)
    \/ emitScrollEnd
    \/ emitMoveEnd
    \/ TickToTimer

SpecRaw == InitRaw /\ [][NextRaw]_vars

\* ---- the recorder: video chunks written while recording and on stop
InitRecorder == InitNorm /\ budget = MaxRecorderSteps

NextRecorder ==
    \/ handleStart
    \/ \E ok \in BOOLEAN : startRecording(ok)
    \/ \E size \in {0, 1} : ondataavailable(size)
    \/ \E k \in DOMAIN chunkQueueRef : chunkStarts(k)
    \/ \E k \in DOMAIN chunkQueueRef : \E ok \in BOOLEAN : chunkRead(k, ok)
    \/ \E k \in DOMAIN chunkQueueRef : \E ok \in BOOLEAN : chunkWritten(k, ok)
    \/ handleStop
    \/ onstopFires
    \/ \E ok \in BOOLEAN : finalizeVideoStream(ok)
    \/ \E canceled \in BOOLEAN : stopResolved(canceled)

SpecRecorder == InitRecorder /\ [][NextRecorder]_vars

\* ---- the screenshot service's warm-up, which may fail, and the capture jobs
InitWarm == InitNorm /\ budget = MaxWarmSteps

NextWarm ==
    \/ handleStart
    \/ \E ok \in BOOLEAN : startRecording(ok)
    \/ \E ok \in BOOLEAN : warm(ok)
    \/ startCapture
    \/ \E e \in {KeyEvent(0, "shift")} : handleKeyDown(e)
    \/ handleAction
    \/ CaptureEffect
    \/ \E k \in DOMAIN captureQueueRef : jobStarts(k)
    \/ \E k \in DOMAIN captureQueueRef : \E ok \in BOOLEAN : captureSettles(k, ok)
    \/ \E k \in DOMAIN captureQueueRef : \E ok \in BOOLEAN : persistSettles(k, ok)
    \/ \E k \in DOMAIN captureQueueRef : settleElapsed(k)
    \/ TickToTimer

SpecWarm == InitWarm /\ [][NextWarm]_vars

\* ---- the upload queue
InitUpload == InitNorm /\ budget = MaxUploadSteps

NextUpload ==
    \/ \E s \in Sessions : uploadEnqueue(s)
    \/ pickUp
    \/ uploadProgress
    \/ uploadSuccess
    \/ uploadFailsRetryable
    \/ backoffElapses
    \/ uploadFailsPermanent
    \/ uploadCancel
    \/ \E s \in Sessions : uploadRetry(s)
    \/ processCrash
    \/ restore
    \/ TickToTimer

SpecUpload == InitUpload /\ [][NextUpload]_vars

\* ---- the upload queue under a retry limit that lets the backoff reach its cap
InitBackoff ==
    /\ InitProgram
    /\ uploadState = [s \in Sessions |-> newUploadState(MaxBackoffRetries)]
    /\ budget = MaxBackoffSteps

NextBackoff ==
    \/ \E s \in Sessions : uploadEnqueue(s)
    \/ pickUp
    \/ uploadProgress
    \/ uploadSuccess
    \/ uploadFailsRetryable
    \/ backoffElapses
    \/ TickToTimer

SpecBackoff == InitBackoff /\ [][NextBackoff]_vars

(***************************************************************************)
(* Reading the observed run                                                *)
(***************************************************************************)
IsIn(i, names) == hist[i].kind = "in" /\ hist[i].type \in names
IsOut(i, types) == hist[i].kind = "out" /\ hist[i].type \in types

\* the last position before i (0 when none), the first position after i
\* (Len(hist) + 1 when none), where P holds
LastBefore(i, P(_)) == Max({0} \cup {k \in 1..(i - 1) : P(k)})
FirstAfter(i, P(_)) == Min({Len(hist) + 1} \cup {k \in (i + 1)..Len(hist) : P(k)})

\* the actions handed to the callback, in emission order
Emitted == SelectSeq(hist, LAMBDA e : e.kind = "out")

ButtonDowns == {"leftMouseDown", "rightMouseDown", "otherMouseDown"}

(***************************************************************************)
(* C4                                                                      *)
(***************************************************************************)
IsButtonDown(i) == IsIn(i, ButtonDowns)

\* C4: every button-down event emits a click whose clickCount is the previous
\* button-down's clickCount + 1 when it comes strictly less than 500 ms after
\* and strictly less than 10 px from that previous button-down, and 1 otherwise.
C4_ClickCount ==
    \A i \in 1..Len(hist) :
        IsButtonDown(i) =>
            LET p == LastBefore(i, IsButtonDown)
                continues ==
                    /\ p > 0
                    /\ hist[i].happenedAt - hist[p].happenedAt < clickThresholdMs
                    /\ distanceSquared(hist[i].coords, hist[p].coords)
                          < clickDistanceThreshold * clickDistanceThreshold
            IN  /\ i < Len(hist)
                /\ IsOut(i + 1, {"click"})
                /\ hist[i + 1].clickCount =
                      IF continues THEN hist[p + 1].clickCount + 1 ELSE 1

\* Three button-downs in a row count 1, 2, 3, and a fourth one at the same
\* point exactly 500 ms later counts 1 again.
C4_Witness ==
    \E i \in 1..Len(hist) : \E j \in (i + 1)..Len(hist) :
        /\ IsOut(i, {"click"}) /\ hist[i].clickCount = 3
        /\ IsOut(j, {"click"}) /\ hist[j].clickCount = 1
        /\ hist[j].coords = hist[i].coords
        /\ hist[j].happenedAt = hist[i].happenedAt + clickThresholdMs

(***************************************************************************)
(* C5                                                                      *)
(***************************************************************************)
IsLeftDown(i) == IsIn(i, {"leftMouseDown"})
IsLeftUp(i) == IsIn(i, {"leftMouseUp"})
IsDragEvent(i) == IsIn(i, {"leftMouseDragged"})
IsDragStart(i) == IsOut(i, {"drag_start"})
IsDragEnd(i) == IsOut(i, {"drag_end"})
IsInvocation(i) == hist[i].kind = "in"

\* what ends the span a left-button-down opened: the button going up, the
\* button reported down again, or stop()
EndsSpan(i) == IsIn(i, {"leftMouseUp", "leftMouseDown", "stop"})

\* the positions of hist that handler invocation d emitted
EmittedBy(d) == (d + 1)..(FirstAfter(d, IsInvocation) - 1)

\* C5 as stated: in every span from a left-button-down to the next
\* left-button-up, drag_start is emitted at most once, by the first
\* left-button-drag event; a drag_end is emitted by a left-button-up only
\* after a drag_start of the same span.
C5_AsStated ==
    /\ \A i \in 1..Len(hist) :
          IsLeftDown(i) =>
              LET u == FirstAfter(i, IsLeftUp)
                  d == FirstAfter(i, IsDragEvent)
                  starts == {k \in (i + 1)..(u - 1) : IsDragStart(k)}
              IN  /\ Cardinality(starts) <= 1
                  /\ \A k \in starts : d < u /\ k \in EmittedBy(d)
    /\ \A j \in 1..Len(hist) :
          IsDragEnd(j) =>
              LET u == LastBefore(j, IsInvocation)
                  i == LastBefore(u, IsLeftDown)
              IN  /\ IsLeftUp(u)
                  /\ i > 0
                  /\ \E k \in (i + 1)..(u - 1) : IsDragStart(k)

\* C5, amended: in every span from a left-button-down to the next
\* left-button-up, left-button-down or stop(), drag_start is emitted at most
\* once, by the first left-button-drag event of the span; a drag_end is
\* emitted by a left-button-up only, and only after a drag_start of the span
\* that this left-button-up ends.
C5_DragSpan ==
    /\ \A i \in 1..Len(hist) :
          IsLeftDown(i) =>
              LET u == FirstAfter(i, EndsSpan)
                  d == FirstAfter(i, IsDragEvent)
                  starts == {k \in (i + 1)..(u - 1) : IsDragStart(k)}
              IN  /\ Cardinality(starts) <= 1
                  /\ \A k \in starts : d < u /\ k \in EmittedBy(d)
    /\ \A j \in 1..Len(hist) :
          IsDragEnd(j) =>
              LET u == LastBefore(j, IsInvocation)
                  i == LastBefore(u, EndsSpan)
              IN  /\ IsLeftUp(u)
                  /\ i > 0 /\ IsLeftDown(i)
                  /\ \E k \in (i + 1)..(u - 1) : IsDragStart(k)
    /\ \A k \in 1..Len(hist) :
          IsDragStart(k) =>
              LET i == LastBefore(k, EndsSpan) IN i > 0 /\ IsLeftDown(i)

\* A span with two drag events and one drag_start, closed by a drag_end.
C5_Witness ==
    \E i \in 1..Len(hist) :
        /\ IsLeftDown(i)
        /\ LET u == FirstAfter(i, EndsSpan)
           IN  /\ u <= Len(hist) /\ IsLeftUp(u)
               /\ Cardinality({d \in (i + 1)..(u - 1) : IsDragEvent(d)}) = 2
               /\ Cardinality({k \in (i + 1)..(u - 1) : IsDragStart(k)}) = 1
               /\ u < Len(hist) /\ IsDragEnd(u + 1)

(***************************************************************************)
(* C6                                                                      *)
(***************************************************************************)
IsWheel(i) == IsIn(i, {"scrollWheel"})
IsScrollOut(i) == IsOut(i, {"scroll_start", "scroll_end"})
IsWheelOrStop(i) == IsIn(i, {"scrollWheel", "stop"})

\* C6: a burst of wheel events emits one scroll_start, at once on its first
\* event, and one scroll_end, 150 ms after its last event and at that event's
\* coordinates.
C6_ScrollBurst ==
    \* scroll_start and scroll_end alternate, scroll_start first
    /\ \A i \in 1..Len(hist) :
          IsScrollOut(i) =>
              LET p == LastBefore(i, IsScrollOut)
              IN  IF hist[i].type = "scroll_start"
                  THEN p > 0 => hist[p].type = "scroll_end"
                  ELSE p > 0 /\ hist[p].type = "scroll_start"
    \* scroll_start is emitted by a wheel event, with its time and coordinates
    /\ \A i \in 1..Len(hist) :
          IsOut(i, {"scroll_start"}) =>
              /\ IsWheel(i - 1)
              /\ hist[i].happenedAt = hist[i - 1].happenedAt
              /\ hist[i].coords = hist[i - 1].coords
    \* the debounce timer emits scroll_end 150 ms after the last wheel event
    /\ \A j \in 1..Len(hist) :
          (IsOut(j, {"scroll_end"}) /\ IsIn(j - 1, {"scrollTimer"})) =>
              LET w == LastBefore(j, IsWheel)
              IN  /\ w > 0
                  /\ hist[j].happenedAt = hist[w].happenedAt + scrollDebounceMs
                  /\ hist[j].coords = hist[w].coords
    \* and it does so: 150 ms after the last wheel event of a running service
    \* the scroll_end is out, or the timer callback is the next thing to run
    /\ \A w \in 1..Len(hist) :
          (/\ IsWheel(w)
           /\ FirstAfter(w, IsWheelOrStop) > Len(hist)
           /\ now >= hist[w].happenedAt + scrollDebounceMs) =>
              \/ \E j \in (w + 1)..Len(hist) : IsOut(j, {"scroll_end"})
              \/ scrollTimeout = now

\* Wheel events at t = 0, 50, 100 ms: scroll_start at 0, scroll_end at 250.
C6_Witness ==
    /\ Len(SelectSeq(hist, LAMBDA e : e.kind = "in" /\ e.type = "scrollWheel")) = 3
    /\ \E a, b, c, j \in 1..Len(hist) :
          /\ a < b /\ b < c /\ c < j
          /\ IsWheel(a) /\ hist[a].relativeTimeMs = 0
          /\ IsWheel(b) /\ hist[b].relativeTimeMs = TickMs
          /\ IsWheel(c) /\ hist[c].relativeTimeMs = 2 * TickMs
          /\ IsOut(a + 1, {"scroll_start"}) /\ hist[a + 1].relativeTimeMs = 0
          /\ IsOut(j, {"scroll_end"})
          /\ hist[j].relativeTimeMs = 2 * TickMs + scrollDebounceMs
          /\ hist[j].coords = hist[c].coords
          /\ hist[c].coords # hist[a].coords
    /\ Len(Emitted) = 2

(***************************************************************************)
(* C7                                                                      *)
(***************************************************************************)
IsHoverOut(i) == IsOut(i, {"mouseover_start", "mouseover_end"})

\* a hover session of the session of position i is open just before i
HoverOpenBefore(i) ==
    LET p == LastBefore(i, IsHoverOut)
    IN  /\ p > 0
        /\ hist[p].type = "mouseover_start"
        /\ hist[p].sessionId = hist[i].sessionId

\* C7: no mouseover_start and no mouseover_end is emitted after a drag_start
\* and before its drag_end; a hover session open when the drag begins is
\* closed by exactly one mouseover_end, emitted just before the drag_start.
C7_NoHoverInDrag ==
    /\ \A m \in 1..Len(hist) :
          IsHoverOut(m) =>
              LET s == LastBefore(m, IsDragStart)
              IN  (s > 0 /\ hist[s].sessionId = hist[m].sessionId) =>
                      \E e \in (s + 1)..(m - 1) : IsDragEnd(e)
    /\ \A k \in 1..Len(hist) :
          IsDragStart(k) =>
              LET d == LastBefore(k, IsInvocation)
              IN  IF HoverOpenBefore(d)
                  THEN k = d + 2 /\ IsOut(d + 1, {"mouseover_end"})
                  ELSE k = d + 1

(***************************************************************************)
(* C8                                                                      *)
(***************************************************************************)
IsStop(i) == IsIn(i, {"stop"})

ScrollOpenBefore(i) ==
    LET p == LastBefore(i, IsScrollOut)
    IN  p > 0 /\ hist[p].type = "scroll_start"

\* the actions emitted by the invocation at position i
OutsOf(i) == SubSeq(hist, i + 1, FirstAfter(i, IsInvocation) - 1)

TypesOf(seq) == [k \in 1..Len(seq) |-> seq[k].type]

\* C8: stop() on a running normalizer emits scroll_end when a scroll session
\* is open and mouseover_end when a hover session is open, through the
\* callback; once it has returned every scroll_start and every
\* mouseover_start has exactly one later matching _end, and no debounce
\* timer is left to emit another.
C8_StopClosesSessions ==
    /\ \A i \in 1..Len(hist) :
          IsStop(i) =>
              TypesOf(OutsOf(i)) =
                  (IF ScrollOpenBefore(i) THEN <<"scroll_end">> ELSE <<>>)
                  \o (IF HoverOpenBefore(i) THEN <<"mouseover_end">> ELSE <<>>)
    /\ \A i \in 1..Len(hist) :
          IsOut(i, {"scroll_end"}) => ScrollOpenBefore(i)
    /\ \A i \in 1..Len(hist) :
          IsOut(i, {"mouseover_end"}) =>
              LET p == LastBefore(i, IsHoverOut)
              IN  p > 0 /\ hist[p].type = "mouseover_start"
    /\ ~isRunning =>
          /\ scrollTimeout = Null /\ moveTimeout = Null
          /\ \A i \in 1..Len(hist) :
                IsOut(i, {"scroll_start"}) =>
                    LET e == FirstAfter(i, IsScrollOut)
                    IN  e <= Len(hist) /\ hist[e].type = "scroll_end"
          /\ \A i \in 1..Len(hist) :
                IsOut(i, {"mouseover_start"}) =>
                    LET e == FirstAfter(i, IsHoverOut)
                    IN  e <= Len(hist) /\ hist[e].type = "mouseover_end"

\* stop() called with a scroll session and a hover session open, both timers
\* pending: it emits scroll_end, then mouseover_end.
C8_Witness ==
    /\ ~isRunning
    /\ Len(hist) >= 3
    /\ IsStop(Len(hist) - 2)
    /\ IsOut(Len(hist) - 1, {"scroll_end"})
    /\ IsOut(Len(hist), {"mouseover_end"})
    /\ Len(Emitted) = 4

(***************************************************************************)
(* C9                                                                      *)
(***************************************************************************)
\* C9: the renderer's action list, followed by the actions still in flight
\* on the IPC channel, is the sequence of the actions emitted by the
\* normalizer, in emission order (less the actions already cleared from the
\* list): none is lost, none is there twice, none is out of order.
C9_ExactlyOnceInOrder ==
    /\ cleared <= Len(Emitted)
    /\ actions \o channel = SubSeq(Emitted, cleared + 1, Len(Emitted))

\* Four actions emitted by three handlers, two of them by one stop(), are all
\* in the renderer's list.
C9_Witness ==
    /\ Len(Emitted) = 4
    /\ actions = Emitted
    /\ channel = <<>>
    /\ Cardinality({actions[k].actionId : k \in 1..4}) = 4

(***************************************************************************)
(* C1                                                                      *)
(***************************************************************************)
JobStarted(k) == captureQueueRef[k].pc # "queued"
CaptureInProgress(k) == captureQueueRef[k].pc \in {"capture", "persist"}

\* C1: a capture job has started only when every job enqueued before it has
\* settled, so at most one job is between its start and its settling and at
\* most one capture (frame grab and persistence write) is in progress.
C1_CaptureJobsSerialized ==
    /\ \A k \in DOMAIN captureQueueRef : JobStarted(k) => k = 1
    /\ Cardinality({k \in DOMAIN captureQueueRef : JobStarted(k)}) <= 1
    /\ Cardinality({k \in DOMAIN captureQueueRef : CaptureInProgress(k)}) <= 1

\* A keypress job is in its 120 ms settle wait, its before capture persisted,
\* while the job of a later scroll_start waits in the chain.
C1_Witness ==
    /\ Len(captureQueueRef) = 2
    /\ captureQueueRef[1].type = "keypress"
    /\ captureQueueRef[1].pc = "settle"
    /\ captureQueueRef[2].type = "scroll_start"
    /\ captureQueueRef[2].pc = "queued"
    /\ Len(screenshotMetaRef) = 1

(***************************************************************************)
(* C2                                                                      *)
(***************************************************************************)
\* the place of an action in the emission order of the normalizer
EmissionIndex(actionId) ==
    CHOOSE i \in 1..Len(Emitted) : Emitted[i].actionId = actionId

IsEmittedId(actionId) == \E i \in 1..Len(Emitted) : Emitted[i].actionId = actionId

\* C2: capture jobs settle in the order their actions were emitted, and the
\* entries of the screenshot metadata list are in that order, the before
\* entry of an action ahead of its after entry.
C2_CaptureOrder ==
    /\ \A i, j \in 1..Len(settledJobs) :
          (i < j /\ settledJobs[i] # SessionEndId /\ settledJobs[j] # SessionEndId) =>
              /\ IsEmittedId(settledJobs[i]) /\ IsEmittedId(settledJobs[j])
              /\ EmissionIndex(settledJobs[i]) < EmissionIndex(settledJobs[j])
    /\ \A i, j \in 1..Len(screenshotMetaRef) :
          LET a == screenshotMetaRef[i]
              b == screenshotMetaRef[j]
          IN  (i < j /\ a.actionId # SessionEndId /\ b.actionId # SessionEndId) =>
                  /\ IsEmittedId(a.actionId) /\ IsEmittedId(b.actionId)
                  /\ \/ EmissionIndex(a.actionId) < EmissionIndex(b.actionId)
                     \/ /\ a.actionId = b.actionId
                        /\ a.phase = "before"
                        /\ b.phase = "after"

\* A keypress and then a scroll_start were emitted; the list holds the
\* keypress's before and after entries, then the scroll_start's during entry,
\* and both jobs have settled.
C2_Witness ==
    /\ Len(screenshotMetaRef) = 3
    /\ screenshotMetaRef[1].phase = "before"
    /\ screenshotMetaRef[2].phase = "after"
    /\ screenshotMetaRef[3].phase = "during"
    /\ screenshotMetaRef[1].actionId = screenshotMetaRef[2].actionId
    /\ IsEmittedId(screenshotMetaRef[1].actionId)
    /\ IsEmittedId(screenshotMetaRef[3].actionId)
    /\ EmissionIndex(screenshotMetaRef[1].actionId)
          < EmissionIndex(screenshotMetaRef[3].actionId)
    /\ Len(settledJobs) = 2
    /\ captureQueueRef = <<>>

(***************************************************************************)
(* C3                                                                      *)
(***************************************************************************)
Uploading == {s \in Sessions : uploadState[s].status = "uploading"}

\* an enqueue of session s while a transfer is active
EnqueuedDuringTransfer(s) ==
    /\ activeUpload # 0
    /\ uploadState[s].status = "not_uploaded"
    /\ uploadState'[s].status = "pending"

\* C3: at most one session has status uploading, and it is the one the
\* worker holds; an enqueue while a transfer is active appends the session to
\* the queue and leaves the active transfer as it is.
C3_OneTransfer ==
    /\ [](/\ Cardinality(Uploading) <= 1
          /\ \A s \in Uploading : processUp => activeUpload = s)
    /\ [][\A s \in Sessions :
             EnqueuedDuringTransfer(s) =>
                 /\ uploadQueue' = Append(uploadQueue, s)
                 /\ activeUpload' = activeUpload
                 /\ transferred' = transferred
                 /\ Uploading' = Uploading]_vars

\* Session 2 was enqueued while the transfer of session 1 was under way.
C3_Witness ==
    /\ activeUpload = 1
    /\ uploadState[1].status = "uploading"
    /\ transferred = 1
    /\ uploadState[2].status = "pending"
    /\ uploadQueue = <<2>>

(***************************************************************************)
(* C10                                                                     *)
(***************************************************************************)
\* C10: a restart turns every session persisted as uploading into a pending
\* session of the queue, and a transfer that starts begins at byte 0.
C10_RestartResetsUploading ==
    [][/\ (~processUp /\ processUp') =>
              \A s \in Sessions :
                  uploadState[s].status = "uploading" =>
                      /\ uploadState'[s].status = "pending"
                      /\ \E k \in DOMAIN uploadQueue' : uploadQueue'[k] = s
       /\ \A s \in Sessions :
              (activeUpload # s /\ activeUpload' = s) =>
                  /\ uploadState[s].status = "pending"
                  /\ transferred' = 0
                  /\ uploadState'[s].bytesUploaded = 0]_vars

\* A session whose state file said uploading with one chunk sent when the
\* process died has been restored and picked up again, from byte 0.
C10_Witness ==
    \E s \in Sessions :
        /\ interrupted[s] = 1
        /\ processUp
        /\ activeUpload = s
        /\ uploadState[s].status = "uploading"
        /\ uploadState[s].bytesUploaded = 0
        /\ transferred = 0

(***************************************************************************)
(* C11: retries are exhausted at the maxRetries-th failure                 *)
(***************************************************************************)
\* the session has failed maxRetries times since it was last reset
Exhausted(s) ==
    /\ failures[s] = uploadState[s].maxRetries
    /\ uploadState[s].status = "failed"

\* C11: the retryable failure that brings a session's count of failures to
\* maxRetries sets its status to failed; no session fails more often than
\* that; and while it is failed this way the session is neither queued nor
\* in transfer, and its UploadState changes only by the user's retry().
C11_FailedAfterMaxRetries ==
    /\ [](\A s \in Sessions :
            /\ failures[s] <= uploadState[s].maxRetries
            /\ Exhausted(s) =>
                  /\ activeUpload # s
                  /\ \A k \in DOMAIN uploadQueue : uploadQueue[k] # s)
    /\ [][\A s \in Sessions :
            /\ (failures'[s] = failures[s] + 1
                /\ failures'[s] = uploadState[s].maxRetries)
                  => uploadState'[s].status = "failed"
            /\ (failures'[s] = failures[s] + 1
                /\ failures'[s] < uploadState[s].maxRetries)
                  => uploadState'[s].status = "uploading"
            /\ Exhausted(s) =>
                  \/ uploadState'[s] = uploadState[s]
                  \/ uploadOp' = [op |-> "retry", sessionId |-> s]]_vars

\* a session failed for the maxRetries-th time, and the process has been
\* restarted since: the session is still failed
C11_Witness ==
    \E s \in Sessions :
        /\ Exhausted(s)
        /\ uploadState[s].maxRetries >= 2
        /\ uploadOp.op = "restore"

(***************************************************************************)
(* C12: the backoff delay                                                  *)
(***************************************************************************)
\* 1000 * 2^n, and 300000 where that is more
CappedDoubling(n) == IF 1000 * 2^n > 300000 THEN 300000 ELSE 1000 * 2^n

\* C12: when the n-th retry of a session is scheduled (n = 0 after its first
\* failure), the wait is min(1000 * 2^n, 300000) ms, never above 300000; the
\* clock does not pass the end of the wait, and the session goes back to
\* pending exactly when the wait ends.
C12_BackoffDelay ==
    /\ [](backoffUntil # Null => now <= backoffUntil)
    /\ [][/\ (backoffUntil = Null /\ backoffUntil' # Null) =>
                /\ backoffUntil' - now = CappedDoubling(failures[activeUpload])
                /\ backoffUntil' - now <= 300000
                /\ failures'[activeUpload] = failures[activeUpload] + 1
          /\ \A s \in Sessions :
                (/\ processUp /\ processUp'
                 /\ uploadState[s].status = "uploading"
                 /\ uploadState'[s].status = "pending") =>
                    /\ backoffUntil # Null
                    /\ now = backoffUntil]_vars

\* the tenth retry of a session is scheduled: 1000 * 2^9 is above the cap
C12_Witness ==
    /\ backoffUntil # Null
    /\ activeUpload # 0
    /\ failures[activeUpload] = 10
    /\ backoffUntil - now = 300000

(***************************************************************************)
(* C13: retryCount and the failed status                                   *)
(***************************************************************************)
\* C13 as stated: in every reachable UploadState retryCount <= maxRetries, and
\* status is failed only when retryCount = maxRetries.
C13_AsStated ==
    \A s \in Sessions :
        /\ uploadState[s].retryCount <= uploadState[s].maxRetries
        /\ uploadState[s].status = "failed" =>
              uploadState[s].retryCount = uploadState[s].maxRetries

\* C13, amended: in every reachable UploadState retryCount <= maxRetries, and
\* status is failed only when retryCount = maxRetries or the last error of the
\* session was a permanent one.
C13_RetryCountBound ==
    \A s \in Sessions :
        /\ uploadState[s].retryCount >= 0
        /\ uploadState[s].retryCount <= uploadState[s].maxRetries
        /\ uploadState[s].status = "failed" =>
              \/ uploadState[s].retryCount = uploadState[s].maxRetries
              \/ uploadState[s].lastError = "permanent"

\* one session has failed by exhausting its retries, another by a permanent
\* error before it had used them
C13_Witness ==
    \E s, t \in Sessions :
        /\ uploadState[s].status = "failed"
        /\ uploadState[s].lastError = "retryable"
        /\ uploadState[s].retryCount = uploadState[s].maxRetries
        /\ uploadState[t].status = "failed"
        /\ uploadState[t].lastError = "permanent"
        /\ uploadState[t].retryCount < uploadState[t].maxRetries

(***************************************************************************)
(* C14: cancel                                                             *)
(***************************************************************************)
\* the step is the queue operation `name` on session s (the clock stands
\* still in every step of the queue)
UploadOpStep(name, s) ==
    /\ now' = now
    /\ uploadOp' = [op |-> name, sessionId |-> s]

InUploadQueue(s) == \E k \in DOMAIN uploadQueue : uploadQueue[k] = s

\* C14: cancel() hits the session in transfer; it ends the transfer, drops its
\* pending backoff wait and its progress, and leaves the session not_uploaded
\* and out of the queue. A not_uploaded session is neither queued nor in
\* transfer, and its UploadState changes only by enqueue().
C14_CancelResets ==
    /\ [](\A s \in Sessions :
            uploadState[s].status = "not_uploaded" =>
                /\ activeUpload # s
                /\ ~InUploadQueue(s))
    /\ [][\A s \in Sessions :
            /\ UploadOpStep("cancel", s) =>
                  /\ uploadState[s].status = "uploading"
                  /\ activeUpload = s
                  /\ uploadState'[s].status = "not_uploaded"
                  /\ uploadState'[s].bytesUploaded = 0
                  /\ activeUpload' = 0
                  /\ transferred' = 0
                  /\ backoffUntil' = Null
                  /\ uploadQueue' = uploadQueue
            /\ uploadState[s].status = "not_uploaded" =>
                  \/ uploadState'[s] = uploadState[s]
                  \/ UploadOpStep("enqueue", s)]_vars

\* a session that had failed once was cancelled, and the process has been
\* restarted since: the session is still not_uploaded
C14_Witness ==
    \E s \in Sessions :
        /\ uploadState[s].status = "not_uploaded"
        /\ failures[s] >= 1
        /\ uploadOp.op = "restore"

(***************************************************************************)
(* C15: permanent and retryable transfer errors                            *)
(***************************************************************************)
\* the session is failed, and its last error was a permanent one
FailedForGood(s) ==
    /\ uploadState[s].status = "failed"
    /\ uploadState[s].lastError = "permanent"

\* C15: a permanent error sets the session in transfer to failed in the same
\* step, whatever its retryCount, and starts no backoff wait; from then on
\* the UploadState of the session changes only by the user's retry(), so that
\* the queue makes no attempt of its own. A retryable error with retries
\* left starts a backoff wait and leaves the session in the worker's hands.
C15_PermanentFailsForGood ==
    [][\A s \in Sessions :
         /\ UploadOpStep("failsPermanent", s) =>
               /\ uploadState'[s].status = "failed"
               /\ uploadState'[s].retryCount = uploadState[s].retryCount
               /\ backoffUntil' = Null
               /\ activeUpload' = 0
               /\ ~InUploadQueue(s)'
         /\ FailedForGood(s) =>
               \/ uploadState'[s] = uploadState[s]
               \/ UploadOpStep("retry", s)
         /\ (UploadOpStep("failsRetryable", s)
             /\ uploadState'[s].status # "failed") =>
               /\ backoffUntil' = now + CappedDoubling(uploadState[s].retryCount)
               /\ activeUpload' = s
               /\ uploadState'[s].status = "uploading"]_vars

(***************************************************************************)
(* C16: the user's retry                                                   *)
(***************************************************************************)
\* C16: retry() on a failed session sets its retryCount to 0 and its status
\* to pending, and appends it to the queue; the rest of its UploadState and
\* the transfer in progress stay as they were.
C16_RetryResets ==
    [][\A s \in Sessions :
         UploadOpStep("retry", s) =>
             /\ uploadState[s].status = "failed"
             /\ uploadState'[s] = [uploadState[s] EXCEPT !.status = "pending",
                                                         !.retryCount = 0]
             /\ uploadQueue' = Append(uploadQueue, s)
             /\ activeUpload' = activeUpload
             /\ backoffUntil' = backoffUntil]_vars

\* a session that had used up its retries has just been retried by the user
C16_Witness ==
    \E s \in Sessions :
        /\ uploadOp = [op |-> "retry", sessionId |-> s]
        /\ uploadState[s].lastError = "retryable"
        /\ uploadState[s].status = "pending"
        /\ uploadState[s].retryCount = 0
        /\ InUploadQueue(s)

(***************************************************************************)
(* C17: one during capture per boundary action                             *)
(***************************************************************************)
\* the calls of captureAndPersist for one action, in the order they were made
CaptureCalls(actionId) ==
    SelectSeq(captureLog, LAMBDA e : e.actionId = actionId /\ e.ev = "start")

\* the action with this id, as the normalizer emitted it
EmittedAction(actionId) == Emitted[EmissionIndex(actionId)]

IsBoundaryId(actionId) ==
    /\ IsEmittedId(actionId)
    /\ EmittedAction(actionId).type \in BoundaryTypes

LogOf(actionId) == SelectSeq(captureLog, LAMBDA e : e.actionId = actionId)

IsDiscreteId(actionId) ==
    /\ IsEmittedId(actionId)
    /\ EmittedAction(actionId).type \in BeforeAfterTypes

DiscreteIds ==
    {Emitted[i].actionId : i \in {j \in 1..Len(Emitted) :
                                     Emitted[j].type \in BeforeAfterTypes}}

HasSettled(actionId) == \E j \in DOMAIN settledJobs : settledJobs[j] = actionId

CaptureFails ==
    /\ Len(captureLog') = Len(captureLog) + 1
    /\ captureLog'[Len(captureLog')].ev = "failed"

\* a successful capture of this phase for this action is on record
CaptureDone(actionId, phase) ==
    \E i \in DOMAIN captureLog :
        /\ captureLog[i].ev = "done"
        /\ captureLog[i].actionId = actionId
        /\ captureLog[i].phase = phase

\* C19: when a capture or its write throws, the failing job is the head of
\* the chain and settles; the jobs chained behind it stay, in order and not
\* yet called, and the first of them may be called; the action list, the
\* screenshot metadata and the state of the recording are left as they
\* were. An action carries a screenshot reference only for a capture that
\* succeeded.
C19_FailureSwallowed ==
    /\ [](\A i \in DOMAIN actions :
            \A phase \in {"before", "during", "after"} :
                actions[i][refField(phase)] # <<>> =>
                    CaptureDone(actions[i].actionId, phase))
    /\ [][CaptureFails =>
            /\ captureQueueRef # <<>>
            /\ Head(captureQueueRef).actionId
                  = captureLog'[Len(captureLog')].actionId
            /\ captureQueueRef' = Tail(captureQueueRef)
            /\ \A k \in DOMAIN captureQueueRef' : captureQueueRef'[k].pc = "queued"
            /\ captureQueueRef' # <<>> => mayStart(captureQueueRef', 1)
            /\ settledJobs' = Append(settledJobs, Head(captureQueueRef).actionId)
            /\ UNCHANGED <<actions, screenshotMetaRef, isRecording, isCapturing,
                           sessionIdRef, screenshotServiceRef, startPc, channel,
                           normVars>>]_vars

\* the before capture of a first action failed and left it without
\* references; the job of a later action, chained behind it, has captured
C19_Witness ==
    \E p, q \in DOMAIN actions :
        /\ p < q
        /\ HasSettled(actions[p].actionId)
        /\ \E i \in DOMAIN captureLog :
              /\ captureLog[i].ev = "failed"
              /\ captureLog[i].actionId = actions[p].actionId
        /\ actions[p].beforeScreenshotRef = <<>>
        /\ actions[p].afterScreenshotRef = <<>>
        /\ actions[p].screenshotRef = <<>>
        /\ CaptureDone(actions[q].actionId, firstPhase(actions[q].type))
        /\ actions[q][refField(firstPhase(actions[q].type))] # <<>>

(***************************************************************************)
(* C20: start() without the accessibility permission                       *)
(***************************************************************************)
StartCalls == {"start", "start_noop", "start_denied"}

\* the step is a call of start()
StartAttempt ==
    /\ Len(hist') = Len(hist) + 1
    /\ hist'[Len(hist')].kind = "in"
    /\ hist'[Len(hist')].type \in StartCalls

StopCalled ==
    /\ Len(hist') > Len(hist)
    /\ hist'[Len(hist) + 1].kind = "in"
    /\ hist'[Len(hist) + 1].type \in {"stop", "stop_noop"}

IsStopNoop(i) == IsIn(i, {"stop_noop"})

\* C21: stop() on a normalizer that is not running, never started or already
\* stopped, returns at once: it emits no action and changes no field.
C21_StopWhenStopped ==
    /\ [](\A i \in 1..Len(hist) :
             IsStopNoop(i) => (i = Len(hist) \/ IsInvocation(i + 1)))
    /\ [][(~isRunning /\ StopCalled) =>
             /\ hist' = Append(hist, Invoked("stop_noop", Pt(0, 0)))
             /\ UNCHANGED <<normVars, channel, now, hasPermissions, actions>>]_vars

\* stop() was called before any start(), and again after a stop() that had
\* closed a session.
C21_Witness ==
    \E i, j, k \in 1..Len(hist) :
        /\ i < j /\ j < k
        /\ IsStopNoop(i)
        /\ \A p \in 1..(i - 1) : ~IsIn(p, {"start"})
        /\ IsStop(j) /\ j + 1 < k /\ IsOut(j + 1, {"scroll_end", "mouseover_end"})
        /\ IsStopNoop(k)
        /\ \A p \in (j + 1)..(k - 1) : ~IsIn(p, {"start"})

(***************************************************************************)
(* C22                                                                     *)
(***************************************************************************)
IsEmitted(i) == hist[i].kind = "out"

\* C22: no two actions emitted by the normalizer carry the same actionId,
\* within a session and across the sessions of successive start/stop cycles.
C22_UniqueActionIds ==
    \A i, j \in 1..Len(hist) :
        (i < j /\ IsEmitted(i) /\ IsEmitted(j)) =>
            hist[i].actionId # hist[j].actionId

\* Two sessions of one process, each with actions emitted within the same
\* millisecond as an action of the other: their ids differ by the counter.
C22_Witness ==
    \E i, j, k \in 1..Len(hist) :
        /\ i < j /\ j < k
        /\ IsEmitted(i) /\ IsEmitted(j) /\ IsEmitted(k)
        /\ hist[i].sessionId = hist[j].sessionId
        /\ hist[j].sessionId # hist[k].sessionId
        /\ hist[i].happenedAt = hist[j].happenedAt
        /\ hist[j].happenedAt = hist[k].happenedAt

(***************************************************************************)
(* C23                                                                     *)
(***************************************************************************)
\* the handler invocation that emitted the action at position i
EmitterOf(i) == LastBefore(i, IsInvocation)

\* C23: along the emitted actions of a session relativeTimeMs never
\* decreases (ties allowed), the _end actions emitted by the debounce timers
\* and by stop() included.
C23_RelativeTimeMonotonic ==
    \A i, j \in 1..Len(hist) :
        (/\ i < j /\ IsEmitted(i) /\ IsEmitted(j)
         /\ hist[i].sessionId = hist[j].sessionId) =>
            hist[i].relativeTimeMs <= hist[j].relativeTimeMs

\* One session with a scroll_end emitted by the debounce timer 150 ms after
\* the scroll_start, a mouseover_start at the same millisecond (a tie), and
\* a mouseover_end emitted later by stop().
C23_Witness ==
    \E a, b, c, d \in 1..Len(hist) :
        /\ a < b /\ b < c /\ c < d
        /\ IsOut(a, {"scroll_start"})
        /\ IsOut(b, {"scroll_end"}) /\ IsIn(EmitterOf(b), {"scrollTimer"})
        /\ hist[b].relativeTimeMs = hist[a].relativeTimeMs + scrollDebounceMs
        /\ IsOut(c, {"mouseover_start"})
        /\ hist[c].relativeTimeMs = hist[b].relativeTimeMs
        /\ IsOut(d, {"mouseover_end"}) /\ IsStop(EmitterOf(d))
        /\ hist[d].relativeTimeMs > hist[c].relativeTimeMs
        /\ hist[a].sessionId = hist[d].sessionId

(***************************************************************************)
(* C24                                                                     *)
(***************************************************************************)
\* the left button is down when the invocation at position i begins
ButtonDownBefore(i) ==
    LET p == LastBefore(i, EndsSpan) IN p > 0 /\ IsLeftDown(p)

\* a mouse-move event that arrives while the left button is up
IsHoverMove(i) == IsIn(i, {"mouseMoved"}) /\ ~ButtonDownBefore(i)

\* what closes a hover session ahead of its timer: stop(), or the drag event
\* that opens a drag
ClosesHover(i) ==
    \/ IsStop(i)
    \/ IsDragEvent(i) /\ i < Len(hist) /\ IsEmitted(i + 1)

IsHoverMoveOrCloser(i) == IsHoverMove(i) \/ ClosesHover(i)

\* C24: a burst of mouse-move events that arrive while the left button is up,
\* each less than 350 ms after the one before, emits one mouseover_start, at
\* once on its first event, and one mouseover_end, 350 ms after its last
\* event and at that event's coordinates.
C24_HoverBurst ==
    \* mouseover_start and mouseover_end alternate, mouseover_start first
    /\ \A i \in 1..Len(hist) :
          IsHoverOut(i) =>
              LET p == LastBefore(i, IsHoverOut)
              IN  IF hist[i].type = "mouseover_start"
                  THEN p > 0 => hist[p].type = "mouseover_end"
                  ELSE p > 0 /\ hist[p].type = "mouseover_start"
    \* mouseover_start is emitted by a move event, with its time and coordinates
    /\ \A i \in 1..Len(hist) :
          IsOut(i, {"mouseover_start"}) =>
              /\ IsHoverMove(i - 1)
              /\ hist[i].happenedAt = hist[i - 1].happenedAt
              /\ hist[i].coords = hist[i - 1].coords
    \* a move event that follows another one by less than 350 ms continues
    \* its session: nothing is emitted from the one to the other
    /\ \A v, w \in 1..Len(hist) :
          (/\ v < w /\ IsHoverMove(v) /\ IsHoverMove(w)
           /\ FirstAfter(v, IsHoverMoveOrCloser) = w
           /\ hist[w].happenedAt - hist[v].happenedAt < moveDebounceMs) =>
              /\ \A k \in (v + 2)..w : ~IsHoverOut(k)
              /\ w < Len(hist) => ~IsHoverOut(w + 1)
    \* the debounce timer emits mouseover_end 350 ms after the last move event
    /\ \A j \in 1..Len(hist) :
          (IsOut(j, {"mouseover_end"}) /\ IsIn(j - 1, {"moveTimer"})) =>
              LET w == LastBefore(j, IsHoverMove)
              IN  /\ w > 0
                  /\ hist[j].happenedAt = hist[w].happenedAt + moveDebounceMs
                  /\ hist[j].coords = hist[w].coords
    \* and it does so: 350 ms after the last move event of a session that
    \* neither stop() nor a drag has closed, the mouseover_end is out, or the
    \* timer callback is the next thing to run
    /\ \A w \in 1..Len(hist) :
          (/\ IsHoverMove(w)
           /\ FirstAfter(w, IsHoverMoveOrCloser) > Len(hist)
           /\ now >= hist[w].happenedAt + moveDebounceMs) =>
              \/ \E j \in (w + 1)..Len(hist) : IsOut(j, {"mouseover_end"})
              \/ moveTimeout = now

\* Move events at t = 0 and 50 ms at different points: mouseover_start at 0,
\* mouseover_end at 400 with the coordinates of the second event.
C24_Witness ==
    \E a, b, j \in 1..Len(hist) :
        /\ a < b /\ b < j
        /\ IsHoverMove(a) /\ hist[a].relativeTimeMs = 0
        /\ IsHoverMove(b) /\ hist[b].relativeTimeMs = TickMs
        /\ IsOut(a + 1, {"mouseover_start"}) /\ hist[a + 1].relativeTimeMs = 0
        /\ IsOut(j, {"mouseover_end"}) /\ IsIn(j - 1, {"moveTimer"})
        /\ hist[j].relativeTimeMs = TickMs + moveDebounceMs
        /\ hist[j].coords = hist[b].coords
        /\ hist[b].coords # hist[a].coords
        /\ Cardinality({k \in 1..Len(hist) : IsHoverOut(k)}) = 2

(***************************************************************************)
(* C25                                                                     *)
(***************************************************************************)
\* C25: a drag_start carries the coordinates of the left-button-down that
\* opened its span, whatever the coordinates of the drag event that emits
\* it; a left-button-drag event that arrives while the left button is not
\* down emits nothing.
C25_DragOrigin ==
    /\ \A k \in 1..Len(hist) :
          IsDragStart(k) =>
              LET d == EmitterOf(k)
                  i == LastBefore(d, EndsSpan)
              IN  /\ IsDragEvent(d)
                  /\ i > 0 /\ IsLeftDown(i)
                  /\ hist[k].coords = hist[i].coords
    /\ \A d \in 1..Len(hist) :
          (IsDragEvent(d) /\ ~ButtonDownBefore(d)) => OutsOf(d) = <<>>

\* A drag event at (103,104) with the button up emits nothing; after a
\* left-button-down at (106,108) the next drag event at (103,104) emits a
\* drag_start at (106,108).
C25_Witness ==
    \E e, i, d \in 1..Len(hist) :
        /\ e < i /\ i < d
        /\ IsDragEvent(e) /\ ~ButtonDownBefore(e)
        /\ hist[e].sessionId = hist[d].sessionId
        /\ IsLeftDown(i) /\ hist[i].coords = Pt(106, 108)
        /\ IsDragEvent(d) /\ hist[d].coords = Pt(103, 104)
        /\ d < Len(hist) /\ IsDragStart(d + 1)
        /\ hist[d + 1].coords = Pt(106, 108)

(***************************************************************************)
(* C26                                                                     *)
(***************************************************************************)
\* the last button-down before i on the button of the button-down at i
PreviousOnSameButton(i) ==
    LastBefore(i, LAMBDA k : IsIn(k, {hist[i].type}))

\* C26: click counting is per logical button: the click of a button-down
\* counts one more than the click of the previous button-down on the same
\* button when that one was less than 500 ms earlier and less than 10 px
\* away, and 1 otherwise; a button-down on another button in between
\* neither continues nor feeds the count.
C26_PerButtonCount ==
    \A i \in 1..Len(hist) :
        IsButtonDown(i) =>
            LET p == PreviousOnSameButton(i)
                continues ==
                    /\ p > 0
                    /\ hist[i].happenedAt - hist[p].happenedAt < clickThresholdMs
                    /\ distanceSquared(hist[i].coords, hist[p].coords)
                          < clickDistanceThreshold * clickDistanceThreshold
            IN  /\ i < Len(hist)
                /\ IsOut(i + 1, {"click"})
                /\ hist[i + 1].clickCount =
                      IF continues THEN hist[p + 1].clickCount + 1 ELSE 1

(***************************************************************************)
(* C27                                                                     *)
(***************************************************************************)
IsLeftDownOrUp(i) == IsIn(i, {"leftMouseDown", "leftMouseUp"})

IsDragOut(i) == IsOut(i, {"drag_start", "drag_end"})

\* C28: once stop() has returned, every drag_start emitted during the
\* session has a later drag_end of its own: the next drag action after a
\* drag_start is a drag_end.
C28_DragStartsClosed ==
    ~isRunning =>
        \A i \in 1..Len(hist) :
            IsDragStart(i) =>
                LET e == FirstAfter(i, IsDragOut)
                IN  e <= Len(hist) /\ IsDragEnd(e)

(***************************************************************************)
(* C29                                                                     *)
(***************************************************************************)
\* the number of capture jobs enqueued so far for an action: the jobs still
\* in the chain and the jobs that have settled
JobsEnqueuedFor(actionId) ==
    Cardinality({k \in DOMAIN captureQueueRef :
                    captureQueueRef[k].actionId = actionId})
    + Cardinality({k \in DOMAIN settledJobs : settledJobs[k] = actionId})

\* the first recording of the run is active: input capture was started after
\* the recorder, so every action of the list was delivered while recording
FirstRecordingActive == sessionIdRef = 1 /\ isRecording

\* C29: every action delivered to the renderer while recording is active
\* gets exactly one capture job enqueued: once the coordinator has examined
\* the list, each of its actions has one job, also when several actions were
\* appended before it looked and when the list changed only by an update.
C29_OneJobPerAction ==
    (FirstRecordingActive /\ ~effectPending) =>
        \A i \in 1..Len(actions) : JobsEnqueuedFor(actions[i].actionId) = 1

(***************************************************************************)
(* C30                                                                     *)
(***************************************************************************)
\* the step in which a capture of an action's job has been persisted
CaptureCompletes ==
    /\ Len(captureLog') = Len(captureLog) + 1
    /\ captureLog'[Len(captureLog')].ev = "done"
    /\ captureLog'[Len(captureLog')].type # "session_end"

\* the reference persistScreenshot returned in that step
PersistedNow == screenshotMetaRef'[Len(screenshotMetaRef')].screenshotRef

\* C30: when a capture for action A completes, A's record in the action
\* list gets the persisted reference in the field of the capture's phase;
\* no other action changes, no other field of A changes except the stream
\* timestamp, and no action leaves the list.
C30_UpdateInPlace ==
    [][CaptureCompletes =>
          LET done == captureLog'[Len(captureLog')]
          IN  /\ Len(screenshotMetaRef') = Len(screenshotMetaRef) + 1
              /\ Len(actions') = Len(actions)
              /\ \A i \in 1..Len(actions) :
                    IF actions[i].actionId = done.actionId
                    THEN /\ actions'[i][refField(done.phase)] = PersistedNow
                         /\ DOMAIN actions'[i] = DOMAIN actions[i]
                         /\ \A f \in DOMAIN actions[i] \ {refField(done.phase),
                                                          "streamTimestamp"} :
                               actions'[i][f] = actions[i][f]
                    ELSE actions'[i] = actions[i]]_vars

\* Two actions in the list: the first, a keypress, has the references of its
\* before and its after capture and the stream timestamp of the before
\* capture; the second has not been touched.
C30_Witness ==
    /\ Len(actions) = 2
    /\ actions[1].type = "keypress"
    /\ actions[1].beforeScreenshotRef # <<>>
    /\ actions[1].afterScreenshotRef # <<>>
    /\ actions[1].beforeScreenshotRef # actions[1].afterScreenshotRef
    /\ actions[1].screenshotRef = <<>>
    /\ actions[1].streamTimestamp # Null
    /\ actions[2] = EmittedAction(actions[2].actionId)
    /\ actions[1] # EmittedAction(actions[1].actionId)

(***************************************************************************)
(* C31                                                                     *)
(***************************************************************************)
\* the step in which handleStop invokes "exportSessionBundle"
ExportCalled == Len(exported') = Len(exported) + 1

\* the bundle handed over in that step
ExportedNow == exported'[Len(exported')]

\* C31: the action log passed to exportSessionBundle is the renderer's
\* action list of the session as it is when the export is called: every
\* action delivered before the call, the _end actions of the normalizer's
\* stop() included, in emission order, each with the references attached by
\* the capture jobs that completed before the call.
C31_ExportedLogCurrent ==
    [][(ExportCalled /\ ExportedNow.sessionId = sessionIdRef) =>
          ExportedNow.actions = actions]_vars

(***************************************************************************)
(* C32                                                                     *)
(***************************************************************************)
\* the step in which captureAndPersist calls service.capture
CaptureInvoked ==
    /\ Len(captureLog') = Len(captureLog) + 1
    /\ captureLog'[Len(captureLog')].ev = "start"

\* C32: service.capture is invoked only on a screenshot service whose
\* warm-up has completed successfully: never while the warm-up is still
\* running, never after it has failed.
C32_CaptureOnlyWhenWarm ==
    [][CaptureInvoked => screenshotServiceRef = "warm"]_vars

(***************************************************************************)
(* C33                                                                     *)
(***************************************************************************)
IsThrown(i) == hist[i].kind = "error"

\* the events that emit an action whenever they are handled
AlwaysEmits == ButtonDowns \cup {"keyDown"}

\* C33: handling a raw event that lacks a field never raises an error: the
\* missing field is defaulted, coordinates to (0,0), and the action of the
\* event is emitted all the same.
C33_MissingFieldsTolerated ==
    /\ \A i \in 1..Len(hist) : ~IsThrown(i)
    /\ \A i \in 1..Len(hist) :
          IsIn(i, AlwaysEmits) =>
              /\ i < Len(hist)
              /\ IsOut(i + 1, {"click", "keypress"})
              /\ hist[i + 1].coords.x >= 0 /\ hist[i + 1].coords.y >= 0

(***************************************************************************)
(* C34: one pending timer of each kind                                     *)
(***************************************************************************)

\* the pending timers of a kind
TimersOf(kind) == {t \in timers : t.kind = kind}

\* the pending timers that the handles of the service stand for
HeldTimers ==
    (IF scrollTimeout = Null THEN {} ELSE {Timer("scroll", scrollTimeout)})
    \cup (IF moveTimeout = Null THEN {} ELSE {Timer("hover", moveTimeout)})

StartOf(kind) == IF kind = "scroll" THEN "scroll_start" ELSE "mouseover_start"
EndOf(kind) == IF kind = "scroll" THEN "scroll_end" ELSE "mouseover_end"
IsSessionOut(i, kind) == IsOut(i, {StartOf(kind), EndOf(kind)})
IsScrollSessionOut(i) == IsSessionOut(i, "scroll")
IsHoverSessionOut(i) == IsSessionOut(i, "hover")
PreviousOfKind(i, kind) ==
    IF kind = "scroll" THEN LastBefore(i, IsScrollSessionOut)
                       ELSE LastBefore(i, IsHoverSessionOut)

\* C34: at any time at most one scroll debounce timer and at most one hover
\* debounce timer is pending, and it is the one the service holds the handle
\* of: scheduling a timer cancels the pending timer of its kind. No _end
\* action is emitted without a _start of its kind since the _end before it,
\* so a burst of events never produces two _end actions for one _start.
C34_OneTimerPerKind ==
    /\ \A kind \in {"scroll", "hover"} : Cardinality(TimersOf(kind)) <= 1
    /\ timers = HeldTimers
    /\ \A kind \in {"scroll", "hover"} : \A j \in 1..Len(hist) :
          IsOut(j, {EndOf(kind)}) =>
              LET p == PreviousOfKind(j, kind)
              IN  p > 0 /\ hist[p].type = StartOf(kind)

\* A burst of two wheel events and two move events has rescheduled both
\* timers: one timer of each kind is pending, due after the later event.
C34_Witness ==
    \E a, b, c, d \in 1..Len(hist) :
        /\ a < b /\ IsIn(a, {"scrollWheel"}) /\ IsIn(b, {"scrollWheel"})
        /\ hist[b].happenedAt = hist[a].happenedAt + TickMs
        /\ c < d /\ IsIn(c, {"mouseMoved"}) /\ IsIn(d, {"mouseMoved"})
        /\ hist[d].happenedAt = hist[c].happenedAt + TickMs
        /\ timers = {Timer("scroll", hist[b].happenedAt + scrollDebounceMs),
                     Timer("hover", hist[d].happenedAt + moveDebounceMs)}
        /\ isScrolling /\ isMoving

(***************************************************************************)
(* C35: what restore() re-enqueues                                         *)
(***************************************************************************)

\* restore() runs: the process comes up
Restarts == ~processUp /\ processUp'

\* how often session s is in the FIFO after the step
TimesQueued(s) == Cardinality({k \in DOMAIN uploadQueue' : uploadQueue'[k] = s})

RetriableAtRestart(st) ==
    \/ st.status = "pending"
    \/ st.status = "failed" /\ st.retryCount < st.maxRetries

SettledAtRestart(st) ==
    \/ st.status = "done"
    \/ st.status = "failed" /\ st.retryCount = st.maxRetries

Goes(s, a, b, op) ==
    /\ uploadState[s].status = a
    /\ uploadState'[s].status = b
    /\ uploadOp'.op = op

\* the seven transitions of the state machine
ListedTransition(s) ==
    \/ Goes(s, "not_uploaded", "pending", "enqueue")
    \/ Goes(s, "pending", "uploading", "pickUp")
    \/ Goes(s, "uploading", "done", "success")
    \/ /\ Goes(s, "uploading", "pending", "backoffElapses")
       /\ uploadState[s].retryCount < maxRetries
       /\ uploadState[s].lastError = "retryable"
       /\ now >= backoffUntil
    \/ /\ Goes(s, "uploading", "failed", "failsRetryable")
       /\ uploadState'[s].retryCount = maxRetries
    \/ /\ Goes(s, "failed", "pending", "retry")
       /\ uploadState'[s].retryCount = 0
    \/ Goes(s, "uploading", "not_uploaded", "cancel")

\* what restore() and a permanent error do to the status
RestartOrPermanentTransition(s) ==
    \/ Goes(s, "uploading", "pending", "restore")
    \/ /\ Goes(s, "failed", "pending", "restore")
       /\ uploadState[s].retryCount < maxRetries
       /\ uploadState'[s].retryCount = uploadState[s].retryCount
    \/ /\ Goes(s, "uploading", "failed", "failsPermanent")
       /\ uploadState'[s].retryCount = uploadState[s].retryCount

StatusChanges(s) == uploadState'[s].status # uploadState[s].status

C37_SilentWhileStopped ==
    /\ [](~isRunning =>
             /\ callback = "null"
             /\ timers = {}
             /\ scrollTimeout = Null
             /\ moveTimeout = Null)
    /\ [][~isRunning => (Emitted' = Emitted /\ channel' = channel)]_vars

\* stop() was called inside the debounce delay of a wheel event, and the
\* clock is now past the time the cancelled timer was due: the scroll_end of
\* stop() is the last action emitted.
C37_Witness ==
    /\ ~isRunning
    /\ \E w, i \in 1..Len(hist) :
          /\ w < i
          /\ IsIn(w, {"scrollWheel"})
          /\ IsStop(i)
          /\ hist[i].happenedAt < hist[w].happenedAt + scrollDebounceMs
          /\ now >= hist[w].happenedAt + scrollDebounceMs
          /\ TypesOf(OutsOf(i)) = <<"scroll_end">>
          /\ i + 1 = Len(hist)

(***************************************************************************)
(* C38: the export waits for the capture jobs                              *)
(***************************************************************************)

\* the capture jobs of actions that are still in the chain
UnsettledActionJobs ==
    {k \in DOMAIN captureQueueRef : captureQueueRef[k].type # "session_end"}

\* the entries of the captures persisted so far for a session
PersistedFor(sid) ==
    {screenshotMetaRef[k] : k \in {j \in DOMAIN screenshotMetaRef :
                                      screenshotMetaRef[j].screenshotRef[1] = sid}}

Entries(seq) == {seq[k] : k \in DOMAIN seq}

\* C38: exportSessionBundle is invoked only when every capture job enqueued
\* for an action of the session has settled, and the screenshot metadata
\* list of an export holds an entry for every capture of its session that
\* succeeded.
C38_ExportAfterJobs ==
    /\ [][ExportCalled => UnsettledActionJobs = {}]_vars
    /\ [](\A e \in DOMAIN exported :
             PersistedFor(exported[e].sessionId)
                 \subseteq Entries(exported[e].screenshots))

(***************************************************************************)
(* C39: the video chunks are written one at a time, then the stream is     *)
(* finalized                                                               *)
(***************************************************************************)

IsChunkEvent(i, evs) == videoLog[i].ev \in evs
WriteBegins(i) == IsChunkEvent(i, {"begin"})
WriteSettles(i) == IsChunkEvent(i, {"end", "failed"})

\* the chunk writes in progress
WritesInFlight == {k \in DOMAIN chunkQueueRef : chunkQueueRef[k].pc # "queued"}

\* the chunks whose write has begun, in the order the writes began
Begun == SelectSeq(videoLog, LAMBDA e : e.ev = "begin")

\* the step in which a chunk write fails
ChunkFails ==
    /\ Len(videoLog') = Len(videoLog) + 1
    /\ videoLog'[Len(videoLog')].ev = "failed"

\* the step in which "finalizeVideoStream" is invoked
FinalizeInvoked ==
    /\ Len(videoLog') = Len(videoLog) + 1
    /\ videoLog'[Len(videoLog')].ev = "finalize"

\* C39: video chunk writes never overlap and begin in the order of the
\* dataavailable events; a failed write leaves the writes queued behind it
\* in the chain, and no chunk is dropped; finalizeVideoStream is invoked only
\* when every queued chunk write has settled, and no write of the session
\* begins or settles after it.
C39_ChunkWritesSerial ==
    /\ [](/\ Cardinality(WritesInFlight) <= 1
          \* a write that has begun settles before the next one begins
          /\ \A i \in 1..Len(videoLog) :
                WriteBegins(i) =>
                    (i < Len(videoLog) =>
                        /\ WriteSettles(i + 1)
                        /\ videoLog[i + 1].chunk = videoLog[i].chunk)
          /\ \A i \in 1..Len(videoLog) :
                WriteSettles(i) =>
                    /\ i > 1
                    /\ WriteBegins(i - 1)
                    /\ videoLog[i - 1].chunk = videoLog[i].chunk
          \* in the order of the events, in the file too
          /\ \A i, j \in 1..Len(Begun) : i < j => Begun[i].chunk < Begun[j].chunk
          /\ \A i, j \in 1..Len(videoFile) :
                i < j => videoFile[i].chunk < videoFile[j].chunk
          /\ \A k \in 1..Len(chunkQueueRef) :
                /\ k > 1 => chunkQueueRef[k - 1].chunk < chunkQueueRef[k].chunk
                /\ \A i \in 1..Len(Begun) :
                      Begun[i].chunk <= chunkQueueRef[k].chunk
          \* every chunk is waiting in the chain or its write has begun
          /\ \A n \in 1..chunkCount :
                \/ \E k \in DOMAIN chunkQueueRef : chunkQueueRef[k].chunk = n
                \/ \E i \in 1..Len(Begun) : Begun[i].chunk = n
          \* nothing of a session is written once its stream is finalized
          /\ \A f, i \in 1..Len(videoLog) :
                (/\ IsChunkEvent(f, {"finalize"})
                 /\ f < i
                 /\ videoLog[i].sessionId = videoLog[f].sessionId) =>
                    IsChunkEvent(i, {"finalize"}))
    /\ [][ChunkFails =>
             /\ Len(chunkQueueRef) >= 1
             /\ chunkQueueRef' = Tail(chunkQueueRef)]_vars
    /\ [][FinalizeInvoked => chunkQueueRef = <<>>]_vars

\* A chunk write failed, the next chunk was appended to the file after it,
\* and the stream was finalized once both writes had settled.
C39_Witness ==
    /\ chunkCount = 2
    /\ Len(videoLog) = 5
    /\ [i \in 1..5 |-> videoLog[i].ev]
          = <<"begin", "failed", "begin", "end", "finalize">>
    /\ videoLog[1].chunk = 1 /\ videoLog[3].chunk = 2
    /\ videoFile = <<[sessionId |-> 1, chunk |-> 2]>>
    /\ onstop.pc = "resolved"

====
